---- MODULE Spec2Model ----
(***************************************************************************)
(* A model of the auto-pr-screenshots action: the capture engine           *)
(* (screenshot-capture.ts), the upload protocol (screenshot-uploader.ts),  *)
(* the pipeline of run() (index.ts), and the comment life cycle (cleanup.ts *)
(* and the comment poster).                                                *)
(***************************************************************************)
EXTENDS Integers, Sequences, FiniteSets, TLC

(***************************************************************************)
(* Bounds                                                                  *)
(***************************************************************************)
\* the longest config.screenshots list that is enumerated
MaxTargets == 2
\* the number of uploadScreenshots runs against one repository
NumRuns == 2

(***************************************************************************)
(* Capture engine state (screenshot-capture.ts)                            *)
(***************************************************************************)
VARIABLES
    browserList,    \* browsers.split(',').map(trim): the requested engine ids
    targets,        \* config.screenshots
    cpc,            \* position inside captureScreenshots
    bi,             \* index of browserName in browserList (the for..of cursor)
    ti,             \* index of screenshotConfig in config.screenshots
    stage,          \* the await captureScreenshot is at, for the current pair
    si,             \* executeSteps: index of the step in config.steps
    sub,            \* executeSteps: field of the step that is handled next (1..4)
    screenshots,    \* the local array that captureScreenshots returns
    openBrowsers,   \* launched browsers (by bi) on which close() was not yet called
    openContexts,   \* contexts (by <<bi, ti>>) on which close() was not yet called
    cur,            \* observation of the current pair: what ran and what failed
    log             \* observation: launch / begin / end / close events, in order

capVars == <<browserList, targets, cpc, bi, ti, stage, si, sub, screenshots,
             openBrowsers, openContexts, cur, log>>

(***************************************************************************)
(* Upload protocol state (screenshot-uploader.ts) and the repository       *)
(***************************************************************************)
VARIABLES
    refs,           \* the repository: branch name -> commit sha (0: no such ref)
    commits,        \* the repository: commit sha -> [tree, parents, message]
    clock,          \* the wall clock that new Date() reads, in milliseconds
    order,          \* observation: the runs in the order they started
    up              \* per run: the locals of uploadScreenshots and its position

upVars == <<refs, commits, clock, order, up>>

(***************************************************************************)
(* The pipeline of run() (index.ts) and the comments of the pull request   *)
(***************************************************************************)
VARIABLES
    run,            \* the inputs, the position and the effects of one run()
    comments,       \* the comments of the pull request, in creation order
    posted,         \* observation: the bodies postComment has sent, in order
    cleanup         \* position of deleteScreenshotComments and the ids it listed

runVars == <<run>>
cmtVars == <<comments, posted, cleanup>>

(***************************************************************************)
(* The process (signal handlers of index.ts) and the configuration loader  *)
(***************************************************************************)
VARIABLES
    files,          \* the scratch directory: path -> the pair whose screenshot wrote it last
    proc,           \* the signal delivered to the process and its exit code
    conf,           \* the raw configuration, the position and the result of loading it
    loading         \* loadConfiguration: its inputs, its position, the heap of objects

fsVars == <<files>>
procVars == <<proc>>
confVars == <<conf>>
loadingVars == <<loading>>

vars == <<capVars, upVars, runVars, cmtVars, fsVars, procVars, confVars, loadingVars>>

\* what the actions of one component leave unchanged
notCapture == <<upVars, runVars, cmtVars, fsVars, procVars, confVars, loadingVars>>
notCaptureFs == <<upVars, runVars, cmtVars, procVars, confVars, loadingVars>>
notUpload == <<capVars, runVars, cmtVars, fsVars, procVars, confVars, loadingVars>>
notRun == <<capVars, upVars, cmtVars, fsVars, procVars, confVars, loadingVars>>
notComments == <<capVars, upVars, runVars, fsVars, procVars, confVars, loadingVars>>
notConf == <<capVars, upVars, runVars, cmtVars, fsVars, procVars, loadingVars>>

\* the parts of the state a specification of another component leaves alone
CaptureIdle ==
    /\ browserList = <<>>
    /\ targets = <<>>
    /\ cpc = "idle"
    /\ bi = 0
    /\ ti = 0
    /\ stage = "none"
    /\ si = 0
    /\ sub = 0
    /\ screenshots = <<>>
    /\ openBrowsers = {}
    /\ openContexts = {}
    /\ cur = <<>>
    /\ log = <<>>

UploadIdle ==
    /\ refs = <<>>
    /\ commits = <<>>
    /\ clock = 0
    /\ order = <<>>
    /\ up = <<>>

RunIdle == run = <<>>

CommentsIdle ==
    /\ comments = <<>>
    /\ posted = <<>>
    /\ cleanup = <<>>

\* no signal was delivered, the process runs
ProcIdle == proc = [signal |-> "none", exitCode |-> -1, at |-> <<>>]

ConfIdle == conf = <<>>

LoadingIdle == loading = <<>>

\* the scratch directory is empty
FsIdle == files = <<>>

(***************************************************************************)
(* Inputs of the capture engine                                            *)
(***************************************************************************)
\* own keys of the BROWSER_MAP object literal
BROWSER_MAP == {"chromium", "firefox", "webkit"}

\* names every object literal inherits from Object.prototype: BROWSER_MAP[name]
\* is truthy for them although they are no engine and have no launch method
ObjectPrototypeKeys == {"constructor", "toString"}

\* BROWSER_MAP[browserName] is truthy
Truthy(name) == name \in BROWSER_MAP \cup ObjectPrototypeKeys

\* a ScreenshotStep by the truthiness of its four optional fields
Step(c, f, w, wf) == [click |-> c, fill |-> f, wait |-> w, waitFor |-> wf]

ClickStep   == Step(TRUE, FALSE, FALSE, FALSE)
FillStep    == Step(FALSE, TRUE, FALSE, FALSE)
WaitStep    == Step(FALSE, FALSE, TRUE, FALSE)
WaitForStep == Step(FALSE, FALSE, FALSE, TRUE)
MixedStep   == Step(TRUE, TRUE, TRUE, TRUE)

\* a ScreenshotConfig: name, truthiness of waitFor and wait, and the steps
ScreenshotConfig(n, wf, w, st) == [name |-> n, waitFor |-> wf, wait |-> w, steps |-> st]

\* the target configurations that are enumerated; two of them share a name
TargetCatalog ==
    { ScreenshotConfig("home", FALSE, FALSE, <<>>),
      ScreenshotConfig("about", TRUE, TRUE, <<ClickStep, WaitStep, WaitForStep>>),
      ScreenshotConfig("home", FALSE, TRUE, <<FillStep, MixedStep>>) }

SeqsUpTo(S, n) == UNION { [1..k -> S] : k \in 1..n }

TargetLists == SeqsUpTo(TargetCatalog, MaxTargets)

\* the browser lists that are enumerated: known engines, an unknown one, the
\* empty string that an empty 'browsers' input splits into, and a repeated engine
BrowserLists ==
    { <<"webkit">>, <<"">>, <<"chromium", "chromium">>,
      <<"chromium", "opera", "firefox">>, <<"firefox", "constructor">> }

(***************************************************************************)
(* captureScreenshot: file name, stage order, executeSteps cursor          *)
(***************************************************************************)
\* `${config.name}-${browserName}.png` under <cwd>/screenshots; a path is the
\* sequence of its segments
Filename(name, bName) == name \o "-" \o bName \o ".png"
Filepath(name, bName) == <<"screenshots", Filename(name, bName)>>

StepField(step, k) ==
    CASE k = 1 -> step.click
      [] k = 2 -> step.fill
      [] k = 3 -> step.wait
      [] k = 4 -> step.waitFor

FieldName(k) ==
    CASE k = 1 -> "click" [] k = 2 -> "fill" [] k = 3 -> "wait" [] k = 4 -> "waitFor"

\* the next (step, field) at or after (i, k) whose field is set, in the order
\* the for..of loop and the four ifs of executeSteps visit them; <<0, 0>> when
\* the loop is over
RECURSIVE NextPos(_, _, _)
NextPos(steps, i, k) ==
    IF i > Len(steps) THEN <<0, 0>>
    ELSE IF k > 4 THEN NextPos(steps, i + 1, 1)
    ELSE IF StepField(steps[i], k) THEN <<i, k>>
    ELSE NextPos(steps, i, k + 1)

\* the stage that follows `st` on the success path of captureScreenshot
StageAfter(config, st) ==
    CASE st = "newContext" -> "newPage"
      [] st = "newPage"    -> "goto"
      [] st = "goto"       -> "loadState"
      [] st = "loadState"  ->
            IF config.waitFor THEN "waitFor"
            ELSE IF config.wait THEN "wait"
            ELSE IF Len(config.steps) > 0 THEN "steps"
            ELSE "screenshot"
      [] st = "waitFor"    ->
            IF config.wait THEN "wait"
            ELSE IF Len(config.steps) > 0 THEN "steps"
            ELSE "screenshot"
      [] st = "wait"       ->
            IF Len(config.steps) > 0 THEN "steps" ELSE "screenshot"
      [] st = "steps"      -> "screenshot"
      [] st = "screenshot" -> "ctxClose"

\* the awaits of captureScreenshot that reject into its catch block
FailableStages == {"newContext", "newPage", "goto", "loadState", "screenshot", "ctxClose"}

NoCur == [b |-> 0, t |-> 0, ran |-> <<>>, steps |-> <<>>, shot |-> FALSE,
          failedAt |-> "none", waitForTimedOut |-> FALSE]

Event(e, b, t, ok) == [ev |-> e, b |-> b, t |-> t, ok |-> ok]

config == targets[ti]
browserName == browserList[bi]

(***************************************************************************)
(* captureScreenshots                                                      *)
(***************************************************************************)
InitCapture ==
    /\ browserList \in BrowserLists
    /\ targets \in TargetLists
    /\ cpc = "mkdir"
    /\ bi = 1
    /\ ti = 1
    /\ stage = "none"
    /\ si = 0
    /\ sub = 0
    /\ screenshots = <<>>
    /\ openBrowsers = {}
    /\ openContexts = {}
    /\ cur = NoCur
    /\ log = <<>>
    /\ UploadIdle
    /\ RunIdle
    /\ CommentsIdle
    /\ FsIdle
    /\ ProcIdle
    /\ ConfIdle
    /\ LoadingIdle

\* fs.mkdir(screenshotsDir, {recursive: true}) resolves
Mkdir ==
    /\ cpc = "mkdir"
    /\ cpc' = "engine"
    /\ UNCHANGED <<browserList, targets, bi, ti, stage, si, sub, screenshots,
                   openBrowsers, openContexts, cur, log>>
    /\ UNCHANGED notCapture

\* fs.mkdir rejects: captureScreenshots throws before any launch
MkdirFail ==
    /\ cpc = "mkdir"
    /\ cpc' = "thrown"
    /\ UNCHANGED <<browserList, targets, bi, ti, stage, si, sub, screenshots,
                   openBrowsers, openContexts, cur, log>>
    /\ UNCHANGED notCapture

\* if (!BROWSER_MAP[browserName]) { warn; continue }
SkipUnknown ==
    /\ cpc = "engine"
    /\ bi <= Len(browserList)
    /\ ~Truthy(browserName)
    /\ bi' = bi + 1
    /\ log' = Append(log, Event("skip", bi, 0, TRUE))
    /\ UNCHANGED <<browserList, targets, cpc, ti, stage, si, sub, screenshots,
                   openBrowsers, openContexts, cur>>
    /\ UNCHANGED notCapture

\* BROWSER_MAP[browserName].launch(...) resolves; the target loop starts
Launch ==
    /\ cpc = "engine"
    /\ bi <= Len(browserList)
    /\ browserName \in BROWSER_MAP
    /\ openBrowsers' = openBrowsers \cup {bi}
    /\ ti' = 1
    /\ cpc' = "target"
    /\ log' = Append(log, Event("launch", bi, 0, TRUE))
    /\ UNCHANGED <<browserList, targets, bi, stage, si, sub, screenshots,
                   openContexts, cur>>
    /\ UNCHANGED notCapture

\* launch rejects, or BROWSER_MAP[browserName] is an inherited property and
\* .launch is not a function: the call is outside the try, so
\* captureScreenshots throws
LaunchFail ==
    /\ cpc = "engine"
    /\ bi <= Len(browserList)
    /\ Truthy(browserName)
    /\ cpc' = "thrown"
    /\ log' = Append(log, Event("throw", bi, 0, FALSE))
    /\ UNCHANGED <<browserList, targets, bi, ti, stage, si, sub, screenshots,
                   openBrowsers, openContexts, cur>>
    /\ UNCHANGED notCapture

\* the engine loop is over: return screenshots
Return ==
    /\ cpc = "engine"
    /\ bi > Len(browserList)
    /\ cpc' = "returned"
    /\ UNCHANGED <<browserList, targets, bi, ti, stage, si, sub, screenshots,
                   openBrowsers, openContexts, cur, log>>
    /\ UNCHANGED notCapture

\* captureScreenshot(browser, screenshotConfig, browserName) is entered
BeginPair ==
    /\ cpc = "target"
    /\ ti <= Len(targets)
    /\ cpc' = "pair"
    /\ stage' = "newContext"
    /\ si' = 0
    /\ sub' = 0
    /\ cur' = [NoCur EXCEPT !.b = bi, !.t = ti]
    /\ log' = Append(log, Event("begin", bi, ti, TRUE))
    /\ UNCHANGED <<browserList, targets, bi, ti, screenshots, openBrowsers,
                   openContexts>>
    /\ UNCHANGED notCapture

\* the target loop is over: control reaches the finally block
EndTargets ==
    /\ cpc = "target"
    /\ ti > Len(targets)
    /\ cpc' = "closing"
    /\ UNCHANGED <<browserList, targets, bi, ti, stage, si, sub, screenshots,
                   openBrowsers, openContexts, cur, log>>
    /\ UNCHANGED notCapture

\* mutant: the engine loop goes on without closing the browser
CloseBrowserSkipped ==
    /\ cpc = "closing"
    /\ bi' = bi + 1
    /\ cpc' = "engine"
    /\ UNCHANGED <<browserList, targets, ti, stage, si, sub, screenshots, cur,
                   openBrowsers, openContexts, log>>
    /\ UNCHANGED notCapture

\* finally { await browser.close() } resolves; next engine
CloseBrowser ==
    /\ cpc = "closing"
    /\ openBrowsers' = openBrowsers \ {bi}
    /\ openContexts' = { c \in openContexts : c[1] # bi }
    /\ bi' = bi + 1
    /\ cpc' = "engine"
    /\ log' = Append(log, Event("close", bi, 0, TRUE))
    /\ UNCHANGED <<browserList, targets, ti, stage, si, sub, screenshots, cur>>
    /\ UNCHANGED notCapture

\* browser.close() was called and rejects: captureScreenshots throws
CloseBrowserFail ==
    /\ cpc = "closing"
    /\ openBrowsers' = openBrowsers \ {bi}
    /\ openContexts' = { c \in openContexts : c[1] # bi }
    /\ cpc' = "thrown"
    /\ log' = Append(log, Event("close", bi, 0, FALSE))
    /\ UNCHANGED <<browserList, targets, bi, ti, stage, si, sub, screenshots, cur>>
    /\ UNCHANGED notCapture

(***************************************************************************)
(* captureScreenshot: one (engine, target) pair                            *)
(***************************************************************************)
\* the stage entered after `st` succeeded; a steps array none of whose fields
\* is set leaves executeSteps at once
Advance(cfg, st) ==
    LET n == StageAfter(cfg, st)
    IN IF n = "steps" /\ NextPos(cfg.steps, 1, 1) = <<0, 0>> THEN "screenshot" ELSE n

EnterStage(n) ==
    /\ stage' = n
    /\ si' = IF n = "steps" THEN NextPos(config.steps, 1, 1)[1] ELSE 0
    /\ sub' = IF n = "steps" THEN NextPos(config.steps, 1, 1)[2] ELSE 0

\* mutant: a failed pair ends the target loop of its engine
CatchBreaksLoop(failed) ==
    /\ cpc' = "target"
    /\ ti' = Len(targets) + 1
    /\ stage' = "none"
    /\ si' = 0
    /\ sub' = 0
    /\ cur' = [cur EXCEPT !.failedAt = failed]
    /\ log' = Append(log, Event("end", bi, ti, FALSE))
    /\ UNCHANGED <<browserList, targets, bi, screenshots, openBrowsers>>

\* the catch block of captureScreenshot: log the error, return null; the
\* caller pushes nothing and the for..of loop goes on with the next target
CatchReturnNull(failed) ==
    /\ cpc' = "target"
    /\ ti' = ti + 1
    /\ stage' = "none"
    /\ si' = 0
    /\ sub' = 0
    /\ cur' = [cur EXCEPT !.failedAt = failed]
    /\ log' = Append(log, Event("end", bi, ti, FALSE))
    /\ UNCHANGED <<browserList, targets, bi, screenshots, openBrowsers>>

\* mutant: an existing file is kept
WriteFileKeepFirst(dir, filepath, writer) ==
    [p \in DOMAIN dir \cup {filepath} |-> IF p \in DOMAIN dir THEN dir[p] ELSE writer]

\* page.screenshot({path: filepath, ...}) creates the file or replaces it
WriteFile(dir, filepath, writer) ==
    [p \in DOMAIN dir \cup {filepath} |-> IF p = filepath THEN writer ELSE dir[p]]

\* newContext, newPage, goto, waitForLoadState or screenshot resolves
StageOk ==
    /\ cpc = "pair"
    /\ stage \in FailableStages \ {"ctxClose"}
    /\ EnterStage(Advance(config, stage))
    /\ openContexts' = IF stage = "newContext" THEN openContexts \cup {<<bi, ti>>}
                       ELSE openContexts
    /\ cur' = [cur EXCEPT !.ran = Append(@, stage),
                          !.shot = (@ \/ stage = "screenshot")]
    /\ files' = IF stage = "screenshot"
                THEN WriteFile(files, Filepath(config.name, browserName), <<bi, ti>>)
                ELSE files
    /\ UNCHANGED <<browserList, targets, cpc, bi, ti, screenshots, openBrowsers, log>>
    /\ UNCHANGED notCaptureFs

\* newContext, newPage, goto, waitForLoadState, screenshot or context.close
\* rejects: control jumps to the catch block
StageFail ==
    /\ cpc = "pair"
    /\ stage \in FailableStages
    /\ openContexts' = IF stage = "ctxClose" THEN openContexts \ {<<bi, ti>>}
                       ELSE openContexts
    /\ CatchReturnNull(stage)
    /\ UNCHANGED notCapture

\* mutant: the timeout of the target's waitFor reaches the outer catch
WaitForSelectorFatal ==
    /\ cpc = "pair"
    /\ stage = "waitFor"
    /\ UNCHANGED openContexts
    /\ CatchReturnNull("waitFor")
    /\ UNCHANGED notCapture

\* page.waitForSelector(config.waitFor, {state: 'visible', timeout: 10000})
\* resolves, or rejects into the inner catch, which only warns
WaitForSelector ==
    /\ cpc = "pair"
    /\ stage = "waitFor"
    /\ \E timedOut \in BOOLEAN :
          cur' = [cur EXCEPT !.ran = Append(@, "waitFor"), !.waitForTimedOut = timedOut]
    /\ EnterStage(Advance(config, "waitFor"))
    /\ UNCHANGED <<browserList, targets, cpc, bi, ti, screenshots, openBrowsers,
                   openContexts, log>>
    /\ UNCHANGED notCapture

\* page.waitForTimeout(config.wait): a plain delay
WaitForTimeout ==
    /\ cpc = "pair"
    /\ stage = "wait"
    /\ cur' = [cur EXCEPT !.ran = Append(@, "wait")]
    /\ EnterStage(Advance(config, "wait"))
    /\ UNCHANGED <<browserList, targets, cpc, bi, ti, screenshots, openBrowsers,
                   openContexts, log>>
    /\ UNCHANGED notCapture

\* executeSteps: page.click, page.fill, page.waitForTimeout or
\* page.waitForSelector of the field at (si, sub) resolves
StepOk ==
    /\ cpc = "pair"
    /\ stage = "steps"
    /\ LET nxt == NextPos(config.steps, si, sub + 1)
       IN /\ stage' = IF nxt = <<0, 0>> THEN "screenshot" ELSE "steps"
          /\ si' = nxt[1]
          /\ sub' = nxt[2]
    /\ cur' = [cur EXCEPT !.steps = Append(@, <<si, FieldName(sub)>>)]
    /\ UNCHANGED <<browserList, targets, cpc, bi, ti, screenshots, openBrowsers,
                   openContexts, log>>
    /\ UNCHANGED notCapture

\* mutant: a rejected step is swallowed and executeSteps goes on
StepFailSwallowed ==
    /\ cpc = "pair"
    /\ stage = "steps"
    /\ FieldName(sub) \in {"click", "fill", "waitFor"}
    /\ LET nxt == NextPos(config.steps, si, sub + 1)
       IN /\ stage' = IF nxt = <<0, 0>> THEN "screenshot" ELSE "steps"
          /\ si' = nxt[1]
          /\ sub' = nxt[2]
    /\ cur' = [cur EXCEPT !.failedAt = "step"]
    /\ UNCHANGED <<browserList, targets, cpc, bi, ti, screenshots, openBrowsers,
                   openContexts, log>>
    /\ UNCHANGED notCapture

\* executeSteps: page.click, page.fill or page.waitForSelector rejects; the
\* rejection leaves executeSteps and reaches the catch of captureScreenshot
StepFail ==
    /\ cpc = "pair"
    /\ stage = "steps"
    /\ FieldName(sub) \in {"click", "fill", "waitFor"}
    /\ UNCHANGED openContexts
    /\ CatchReturnNull("step")
    /\ UNCHANGED notCapture

\* mutant: the record names the default engine instead of the one used
CapturedScreenshotDefaultBrowser(cfg, bName) ==
    [name |-> cfg.name, browser |-> "chromium", path |-> Filepath(cfg.name, bName)]

\* the record captureScreenshot returns on success
CapturedScreenshot(cfg, bName) ==
    [name |-> cfg.name, browser |-> bName, path |-> Filepath(cfg.name, bName)]

\* mutant: unshift instead of push
PushFront(list, shot) == <<shot>> \o list

\* if (screenshot) screenshots.push(screenshot)
Push(list, shot) == Append(list, shot)

\* context.close() resolves, the record is returned and pushed
ReturnScreenshot ==
    /\ cpc = "pair"
    /\ stage = "ctxClose"
    /\ openContexts' = openContexts \ {<<bi, ti>>}
    /\ screenshots' = Push(screenshots, CapturedScreenshot(config, browserName))
    /\ cpc' = "target"
    /\ ti' = ti + 1
    /\ stage' = "none"
    /\ si' = 0
    /\ sub' = 0
    /\ cur' = [cur EXCEPT !.ran = Append(@, "ctxClose")]
    /\ log' = Append(log, Event("end", bi, ti, TRUE))
    /\ UNCHANGED <<browserList, targets, bi, openBrowsers>>
    /\ UNCHANGED notCapture

NextCapture ==
    \/ Mkdir
    \/ MkdirFail
    \/ SkipUnknown
    \/ Launch
    \/ LaunchFail
    \/ Return
    \/ BeginPair
    \/ EndTargets
    \/ CloseBrowser
    \/ CloseBrowserFail
    \/ StageOk
    \/ StageFail
    \/ WaitForSelector
    \/ WaitForTimeout
    \/ StepOk
    \/ StepFail
    \/ ReturnScreenshot

SpecCapture == InitCapture /\ [][NextCapture]_vars

(***************************************************************************)
(* Observations on the capture engine used by the properties               *)
(***************************************************************************)
IsEnd(e) == e.ev = "end"
IsOkEnd(e) == e.ev = "end" /\ e.ok
IsBegin(e) == e.ev = "begin"

Ends == SelectSeq(log, IsEnd)
OkEnds == SelectSeq(log, IsOkEnd)
Begins == SelectSeq(log, IsBegin)

\* the pairs (engine position, target position) that a full run works on
KnownPairs == { <<b, t>> \in (1..Len(browserList)) \X (1..Len(targets)) :
                   browserList[b] \in BROWSER_MAP }

\* the fields of a steps array in the order executeSteps visits them
RECURSIVE FieldsFrom(_, _, _)
FieldsFrom(steps, i, k) ==
    LET p == NextPos(steps, i, k)
    IN IF p = <<0, 0>> THEN <<>>
       ELSE <<<<p[1], FieldName(p[2])>>>> \o FieldsFrom(steps, p[1], p[2] + 1)

IsPrefix(a, b) == Len(a) <= Len(b) /\ SubSeq(b, 1, Len(a)) = a

Lex(b1, t1, b2, t2) == b1 < b2 \/ (b1 = b2 /\ t1 < t2)

(***************************************************************************)
(* C1  Partial-failure isolation: the pairs whose stages all succeeded are *)
(* exactly the pairs with an artifact, one each; a pair with a failed      *)
(* stage has none; and when captureScreenshots returns, every target was   *)
(* worked on under every known engine, whatever failed before it.          *)
(***************************************************************************)
C1_PartialFailureIsolation ==
    /\ Len(screenshots) = Len(OkEnds)
    /\ \A k \in 1..Len(OkEnds) :
          /\ screenshots[k].name = targets[OkEnds[k].t].name
          /\ screenshots[k].browser = browserList[OkEnds[k].b]
    /\ \A i, j \in 1..Len(Ends) :
          (Ends[i].b = Ends[j].b /\ Ends[i].t = Ends[j].t) => i = j
    /\ (cur.t # 0 /\ cpc # "pair") =>
          /\ Ends[Len(Ends)].b = cur.b /\ Ends[Len(Ends)].t = cur.t
          /\ Ends[Len(Ends)].ok = (cur.failedAt = "none")
    /\ cpc = "returned" =>
          { <<Ends[i].b, Ends[i].t>> : i \in 1..Len(Ends) } = KnownPairs

C1_Witness ==
    /\ cpc = "returned"
    /\ \E i, j \in 1..Len(Ends) :
          /\ i < j
          /\ ~Ends[i].ok
          /\ Ends[j].ok
          /\ Ends[i].b = Ends[j].b
    /\ \E t \in 1..Len(targets) :
          \A i \in 1..Len(Ends) : Ends[i].t = t => ~Ends[i].ok
    /\ Len(screenshots) >= 2

(***************************************************************************)
(* C2  As claimed: a returned list holds at most N x M artifacts, no two   *)
(* with the same (name, browser).                                          *)
(***************************************************************************)
C2_Original ==
    cpc = "returned" =>
        /\ Len(screenshots) <= Len(targets) * Len(browserList)
        /\ \A i, j \in 1..Len(screenshots) :
              (screenshots[i].name = screenshots[j].name
                 /\ screenshots[i].browser = screenshots[j].browser) => i = j

DistinctNames == \A i, j \in 1..Len(targets) : targets[i].name = targets[j].name => i = j
DistinctBrowsers ==
    \A i, j \in 1..Len(browserList) : browserList[i] = browserList[j] => i = j

(***************************************************************************)
(* C2  Amended: the list holds at most N x M artifacts, and no two have    *)
(* the same (name, browser) when the target names are pairwise distinct    *)
(* and no engine is requested twice.                                       *)
(***************************************************************************)
C2_Amended ==
    /\ Len(screenshots) <= Len(targets) * Len(browserList)
    /\ (DistinctNames /\ DistinctBrowsers) =>
          \A i, j \in 1..Len(screenshots) :
              (screenshots[i].name = screenshots[j].name
                 /\ screenshots[i].browser = screenshots[j].browser) => i = j

C2_Witness ==
    /\ cpc = "returned"
    /\ DistinctNames
    /\ DistinctBrowsers
    /\ Len(targets) = 2
    /\ Len(screenshots) = 4

(***************************************************************************)
(* C8  Engine cleanup: close() has been called on every launched browser   *)
(* before the next launch and before captureScreenshots returns or throws; *)
(* at most one browser is open at any time.                                *)
(***************************************************************************)
C8_EngineCleanup ==
    /\ Cardinality(openBrowsers) <= 1
    /\ cpc \in {"engine", "returned", "thrown", "mkdir"} => openBrowsers = {}
    /\ cpc \in {"target", "pair", "closing"} => openBrowsers = {bi}
    /\ \A i \in 1..Len(log) :
          log[i].ev = "launch" =>
             \/ \E j \in (i + 1)..Len(log) :
                   /\ log[j].ev = "close"
                   /\ log[j].b = log[i].b
                   /\ \A k \in (i + 1)..(j - 1) : log[k].ev \notin {"launch", "close"}
             \/ /\ log[i].b \in openBrowsers
                /\ \A k \in (i + 1)..Len(log) : log[k].ev \notin {"launch", "close"}

C8_Witness ==
    /\ cpc \in {"returned", "thrown"}
    /\ Cardinality({ i \in 1..Len(log) : log[i].ev = "launch" }) = 2
    /\ Cardinality({ i \in 1..Len(log) : log[i].ev = "close" }) = 2
    /\ \E i \in 1..Len(Ends) : ~Ends[i].ok

(***************************************************************************)
(* C9  Capture ordering: pairs are begun in engine-major, target-minor     *)
(* order of the two input lists, a pair is begun only after the previous   *)
(* one ended, and the artifacts are in that same order.                    *)
(***************************************************************************)
C9_CaptureOrdering ==
    /\ \A i, j \in 1..Len(Begins) :
          i < j => Lex(Begins[i].b, Begins[i].t, Begins[j].b, Begins[j].t)
    /\ \A i \in 1..Len(log) :
          log[i].ev = "begin" =>
             IF i = Len(log) THEN cpc = "pair"
             ELSE /\ log[i + 1].ev = "end"
                  /\ log[i + 1].b = log[i].b
                  /\ log[i + 1].t = log[i].t
    /\ cpc = "pair" => (log[Len(log)].ev = "begin" /\ log[Len(log)].b = bi
                          /\ log[Len(log)].t = ti)
    /\ Len(screenshots) = Len(OkEnds)
    /\ \A k \in 1..Len(screenshots) :
          /\ screenshots[k].browser = browserList[OkEnds[k].b]
          /\ screenshots[k].name = targets[OkEnds[k].t].name
    /\ \A i, j \in 1..Len(OkEnds) :
          i < j => Lex(OkEnds[i].b, OkEnds[i].t, OkEnds[j].b, OkEnds[j].t)

C9_Witness ==
    /\ cpc = "returned"
    /\ Len(screenshots) = 4
    /\ screenshots[1].browser # screenshots[3].browser
    /\ screenshots[1].name # screenshots[2].name

Runs == 1..NumRuns

\* options.branch and the repository's default branch
ContentBranch == "gh-screenshots"
DefaultBranch == "main"
Branches == {ContentBranch, DefaultBranch}

\* context.repo
Owner == "octo"
Repo == "app"

\* context.payload.pull_request?.number || context.runNumber
PrNumbers == {7, 8}

\* the artifact lists handed to uploadScreenshots
UploadInputs ==
    { <<CapturedScreenshot([name |-> "home"], "chromium")>>,
      <<CapturedScreenshot([name |-> "home"], "chromium"),
        CapturedScreenshot([name |-> "about"], "chromium")>>,
      <<CapturedScreenshot([name |-> "home"], "chromium"),
        CapturedScreenshot([name |-> "home"], "chromium")>> }

\* new Date().toISOString().replace(/[:.]/g, '-') when the clock reads c
Timestamp(c) == "t" \o ToString(c)

PrDir(pr) == "pr-" \o ToString(pr)

\* `pr-${prNumber}/${timestamp}`
ScreenshotDir(pr, ts) == <<PrDir(pr), ts>>

\* path.basename
Basename(path) == path[Len(path)]

\* mutant: every file of the run gets the same name
FilePathFixed(dir, shot) == Append(dir, "screenshot.png")

\* `${screenshotDir}/${path.basename(screenshot.path)}`
FilePath(dir, shot) == Append(dir, Basename(shot.path))

\* `${screenshotDir}/README.md` and `pr-${prNumber}/latest`
ReadmePath(dir) == Append(dir, "README.md")
LatestPath(pr) == <<PrDir(pr), "latest">>

\* a blob's sha stands for its content: the bytes of the file at
\* screenshot.path, the README text, the latest pointer's text
Blob(kind, content) == [kind |-> kind, content |-> content]
FileBlob(shot) == Blob("png", shot.path)
ReadmeBlob(pr, at, shots) ==
    Blob("readme", <<PrDir(pr), at>> \o [i \in 1..Len(shots) |->
                                          shots[i].name \o " (" \o shots[i].browser \o ")"])
LatestBlob(ts) == Blob("latest", <<ts>>)

\* mutant: the tree holds the new entries only
CreateTreeReplacing(base, entries) ==
    LET new == { entries[i].path : i \in 1..Len(entries) }
    IN [q \in new |-> (CHOOSE e \in { entries[i] : i \in 1..Len(entries) } : e.path = q).sha]

\* git.createTree with base_tree: the base tree with every entry of `entries`
\* laid over it, a later entry for a path replacing an earlier one
CreateTree(base, entries) ==
    LET new == { entries[i].path : i \in 1..Len(entries) }
        last(q) == CHOOSE i \in 1..Len(entries) :
                      /\ entries[i].path = q
                      /\ \A j \in 1..Len(entries) : entries[j].path = q => j <= i
    IN [q \in (DOMAIN base) \cup new |->
           IF q \in new THEN entries[last(q)].sha ELSE base[q]]

\* the commits reachable from sha through first parents, sha included
RECURSIVE History(_)
History(sha) ==
    IF sha = 0 THEN {}
    ELSE {sha} \cup (IF commits[sha].parents = <<>> THEN {}
                     ELSE History(commits[sha].parents[1]))

\* git.updateRef without force accepts fast-forwards only
IsFastForward(old, new) == old \in History(new)

\* mutant: the url names the default branch
RawUrlOfDefaultBranch(owner, repo, branch, filePath) ==
    <<"https://raw.githubusercontent.com", owner, repo, DefaultBranch>> \o filePath

\* `https://raw.githubusercontent.com/${owner}/${repo}/${branch}/${filePath}`
RawUrl(owner, repo, branch, filePath) ==
    <<"https://raw.githubusercontent.com", owner, repo, branch>> \o filePath

\* the tree at the tip of the content branch (empty when there is no branch)
TipTree == IF refs[ContentBranch] = 0 THEN <<>> ELSE commits[refs[ContentBranch]].tree

\* the repository before the first run: a default branch with the project's
\* files, and possibly a content branch that an earlier run left
InitialCommit == [tree |-> (<<"README.md">> :> Blob("text", <<"project">>)),
                  parents |-> <<>>, message |-> <<"init">>]
EarlierCommit ==
    [tree |-> (<<"README.md">> :> Blob("text", <<"project">>))
              @@ (<<PrDir(7), "t0", "home-chromium.png">> :>
                      FileBlob(CapturedScreenshot([name |-> "home"], "chromium")))
              @@ (<<PrDir(7), "t0", "README.md">> :> Blob("readme", <<PrDir(7), "t0">>))
              @@ (LatestPath(7) :> LatestBlob("t0")),
     parents |-> <<1>>, message |-> <<PrDir(7), "t0">>]

NoError == [status |-> 0, at |-> "none"]

\* the locals of one uploadScreenshots call
UploadLocals(pr, shots) ==
    [pc |-> "idle", prNumber |-> pr, screenshots |-> shots, timestamp |-> "",
     branchExists |-> FALSE, baseSha |-> 0, baseTree |-> <<>>, blobs |-> <<>>,
     uploadedScreenshots |-> <<>>, treeSha |-> <<>>, commitSha |-> 0,
     error |-> NoError, calls |-> <<>>, tipAtBlobs |-> 0]

InitRepository ==
    \/ /\ commits = <<InitialCommit>>
       /\ refs = [b \in Branches |-> IF b = DefaultBranch THEN 1 ELSE 0]
    \/ /\ commits = <<InitialCommit, EarlierCommit>>
       /\ refs = [b \in Branches |-> IF b = DefaultBranch THEN 1 ELSE 2]

(***************************************************************************)
(* uploadScreenshots, one action per await                                 *)
(***************************************************************************)
Called(r, api) == Append(up[r].calls, api)

\* timestamp and screenshotDir are computed; nothing was sent yet
StartUpload(r) ==
    /\ up[r].pc = "idle"
    /\ up' = [up EXCEPT ![r].pc = "getBranch", ![r].timestamp = Timestamp(clock)]
    /\ order' = Append(order, r)
    /\ UNCHANGED <<refs, commits, clock>>
    /\ UNCHANGED notUpload

\* repos.getBranch resolves, or rejects with status 404; the first round trip
\* takes time, so the clock has moved on when it ends
GetBranch(r) ==
    /\ up[r].pc = "getBranch"
    /\ up' = [up EXCEPT ![r].branchExists = (refs[ContentBranch] # 0),
                        ![r].pc = IF refs[ContentBranch] # 0 THEN "getRef" ELSE "getRepo",
                        ![r].calls = Called(r, "getBranch")]
    /\ clock' = clock + 1
    /\ UNCHANGED <<refs, commits, order>>
    /\ UNCHANGED notUpload

\* repos.get: the default branch's name
GetRepo(r) ==
    /\ up[r].pc = "getRepo"
    /\ up' = [up EXCEPT ![r].pc = "getDefaultRef", ![r].calls = Called(r, "repos.get")]
    /\ UNCHANGED <<refs, commits, clock, order>>
    /\ UNCHANGED notUpload

\* git.getRef of heads/<default branch>
GetDefaultRef(r) ==
    /\ up[r].pc = "getDefaultRef"
    /\ up' = [up EXCEPT ![r].baseSha = refs[DefaultBranch], ![r].pc = "createRef",
                        ![r].calls = Called(r, "getRef")]
    /\ UNCHANGED <<refs, commits, clock, order>>
    /\ UNCHANGED notUpload

\* mutant: the request leaves the missing branch missing
CreateRefSkipped(r) ==
    /\ up[r].pc = "createRef"
    /\ up' = [up EXCEPT ![r].pc = "getCommit", ![r].calls = Called(r, "createRef")]
    /\ UNCHANGED <<refs, commits, clock, order>>
    /\ UNCHANGED notUpload

\* git.createRef of refs/heads/<branch> at baseSha; the API rejects it (422)
\* when the reference exists by now
CreateRef(r) ==
    /\ up[r].pc = "createRef"
    /\ IF refs[ContentBranch] = 0
       THEN /\ refs' = [refs EXCEPT ![ContentBranch] = up[r].baseSha]
            /\ up' = [up EXCEPT ![r].pc = "getCommit", ![r].calls = Called(r, "createRef")]
       ELSE /\ refs' = refs
            /\ up' = [up EXCEPT ![r].pc = "failed", ![r].calls = Called(r, "createRef"),
                                ![r].error = [status |-> 422, at |-> "createRef"]]
    /\ UNCHANGED <<commits, clock, order>>
    /\ UNCHANGED notUpload

\* git.getRef of heads/<branch>: the current tip
GetRef(r) ==
    /\ up[r].pc = "getRef"
    /\ up' = [up EXCEPT ![r].baseSha = refs[ContentBranch], ![r].pc = "getCommit",
                        ![r].calls = Called(r, "getRef")]
    /\ UNCHANGED <<refs, commits, clock, order>>
    /\ UNCHANGED notUpload

\* git.getCommit(baseSha): baseCommit.tree.sha
GetCommit(r) ==
    /\ up[r].pc = "getCommit"
    /\ up' = [up EXCEPT ![r].baseTree = commits[up[r].baseSha].tree, ![r].pc = "blobs",
                        ![r].calls = Called(r, "getCommit"),
                        ![r].tipAtBlobs = refs[ContentBranch]]
    /\ UNCHANGED <<refs, commits, clock, order>>
    /\ UNCHANGED notUpload

\* mutant: each file is committed to the branch as soon as its blob exists
UploadOneToBranch(r) ==
    /\ up[r].pc = "blobs"
    /\ LET k == Len(up[r].blobs) + 1
           shot == up[r].screenshots[k]
           filePath == FilePath(ScreenshotDir(up[r].prNumber, up[r].timestamp), shot)
           entry == [path |-> filePath, sha |-> FileBlob(shot)]
       IN /\ up' = [up EXCEPT
                      ![r].blobs = Append(@, entry),
                      ![r].uploadedScreenshots =
                          Append(@, [name |-> shot.name, browser |-> shot.browser,
                                     url |-> RawUrl(Owner, Repo, ContentBranch, filePath)]),
                      ![r].calls = Called(r, "createBlob"),
                      ![r].pc = IF k = Len(up[r].screenshots) THEN "readme" ELSE "blobs"]
          /\ commits' = Append(commits, [tree |-> CreateTree(TipTree, <<entry>>),
                                         parents |-> <<refs[ContentBranch]>>,
                                         message |-> <<PrDir(up[r].prNumber), up[r].timestamp>>])
          /\ refs' = [refs EXCEPT ![ContentBranch] = Len(commits) + 1]
    /\ UNCHANGED <<clock, order>>
    /\ UNCHANGED notUpload

\* one pass of the for..of loop: readFile, createBlob, blobs.push,
\* uploadedScreenshots.push
UploadOne(r) ==
    /\ up[r].pc = "blobs"
    /\ LET k == Len(up[r].blobs) + 1
           shot == up[r].screenshots[k]
           filePath == FilePath(ScreenshotDir(up[r].prNumber, up[r].timestamp), shot)
       IN up' = [up EXCEPT
                   ![r].blobs = Append(@, [path |-> filePath, sha |-> FileBlob(shot)]),
                   ![r].uploadedScreenshots =
                       Append(@, [name |-> shot.name, browser |-> shot.browser,
                                  url |-> RawUrl(Owner, Repo, ContentBranch, filePath)]),
                   ![r].calls = Called(r, "createBlob"),
                   ![r].pc = IF k = Len(up[r].screenshots) THEN "readme" ELSE "blobs"]
    /\ UNCHANGED <<refs, commits, clock, order>>
    /\ UNCHANGED notUpload

\* fs.readFile(screenshot.path) rejects
ReadFileFail(r) ==
    /\ up[r].pc = "blobs"
    /\ up' = [up EXCEPT ![r].pc = "failed", ![r].error = [status |-> 0, at |-> "readFile"]]
    /\ UNCHANGED <<refs, commits, clock, order>>
    /\ UNCHANGED notUpload

\* createBlob of the README text, pushed at `${screenshotDir}/README.md`
CreateReadme(r) ==
    /\ up[r].pc = "readme"
    /\ LET dir == ScreenshotDir(up[r].prNumber, up[r].timestamp)
       IN up' = [up EXCEPT
                   ![r].blobs = Append(@, [path |-> ReadmePath(dir),
                                           sha |-> ReadmeBlob(up[r].prNumber, Timestamp(clock),
                                                              up[r].screenshots)]),
                   ![r].calls = Called(r, "createBlob"),
                   ![r].pc = "latest"]
    /\ UNCHANGED <<refs, commits, clock, order>>
    /\ UNCHANGED notUpload

\* mutant: no latest pointer is written
CreateLatestSkipped(r) ==
    /\ up[r].pc = "latest"
    /\ up' = [up EXCEPT ![r].pc = "createTree"]
    /\ UNCHANGED <<refs, commits, clock, order>>
    /\ UNCHANGED notUpload

\* createBlob of the timestamp, pushed at `pr-${prNumber}/latest`
CreateLatest(r) ==
    /\ up[r].pc = "latest"
    /\ up' = [up EXCEPT
                ![r].blobs = Append(@, [path |-> LatestPath(up[r].prNumber),
                                        sha |-> LatestBlob(up[r].timestamp)]),
                ![r].calls = Called(r, "createBlob"),
                ![r].pc = "createTree"]
    /\ UNCHANGED <<refs, commits, clock, order>>
    /\ UNCHANGED notUpload

\* git.createTree(base_tree: baseCommit.tree.sha, tree: blobs)
CreateTreeCall(r) ==
    /\ up[r].pc = "createTree"
    /\ up' = [up EXCEPT ![r].treeSha = CreateTree(up[r].baseTree, up[r].blobs),
                        ![r].calls = Called(r, "createTree"),
                        ![r].pc = "createCommit"]
    /\ UNCHANGED <<refs, commits, clock, order>>
    /\ UNCHANGED notUpload

\* mutant: the tree is committed in two commits, one on top of the other
CreateCommitTwice(r) ==
    /\ up[r].pc = "createCommit"
    /\ commits' = commits \o
          <<[tree |-> up[r].baseTree, parents |-> <<up[r].baseSha>>,
             message |-> <<PrDir(up[r].prNumber), up[r].timestamp>>],
            [tree |-> up[r].treeSha, parents |-> <<Len(commits) + 1>>,
             message |-> <<PrDir(up[r].prNumber), up[r].timestamp>>]>>
    /\ up' = [up EXCEPT ![r].commitSha = Len(commits) + 2,
                        ![r].calls = Called(r, "createCommit"),
                        ![r].pc = "updateRef"]
    /\ UNCHANGED <<refs, clock, order>>
    /\ UNCHANGED notUpload

\* git.createCommit(tree, parents: [baseSha])
CreateCommit(r) ==
    /\ up[r].pc = "createCommit"
    /\ commits' = Append(commits, [tree |-> up[r].treeSha, parents |-> <<up[r].baseSha>>,
                                   message |-> <<PrDir(up[r].prNumber), up[r].timestamp>>])
    /\ up' = [up EXCEPT ![r].commitSha = Len(commits) + 1,
                        ![r].calls = Called(r, "createCommit"),
                        ![r].pc = "updateRef"]
    /\ UNCHANGED <<refs, clock, order>>
    /\ UNCHANGED notUpload

\* mutant: a rejected update is retried on top of the tip that won
UpdateRefWithRetry(r) ==
    /\ up[r].pc = "updateRef"
    /\ IF IsFastForward(refs[ContentBranch], up[r].commitSha)
       THEN /\ refs' = [refs EXCEPT ![ContentBranch] = up[r].commitSha]
            /\ commits' = commits
       ELSE /\ commits' = Append(commits, [tree |-> CreateTree(TipTree, up[r].blobs),
                                           parents |-> <<refs[ContentBranch]>>,
                                           message |-> <<PrDir(up[r].prNumber),
                                                         up[r].timestamp>>])
            /\ refs' = [refs EXCEPT ![ContentBranch] = Len(commits) + 1]
    /\ up' = [up EXCEPT ![r].pc = "done", ![r].calls = Called(r, "updateRef")]
    /\ UNCHANGED <<clock, order>>
    /\ UNCHANGED notUpload

\* git.updateRef(heads/<branch>, commit.sha), not forced: the API moves the
\* ref when that is a fast-forward and rejects the call (422) otherwise
UpdateRef(r) ==
    /\ up[r].pc = "updateRef"
    /\ IF IsFastForward(refs[ContentBranch], up[r].commitSha)
       THEN /\ refs' = [refs EXCEPT ![ContentBranch] = up[r].commitSha]
            /\ up' = [up EXCEPT ![r].pc = "done", ![r].calls = Called(r, "updateRef")]
       ELSE /\ refs' = refs
            /\ up' = [up EXCEPT ![r].pc = "failed", ![r].calls = Called(r, "updateRef"),
                                ![r].error = [status |-> 422, at |-> "updateRef"]]
    /\ UNCHANGED <<commits, clock, order>>
    /\ UNCHANGED notUpload

\* the API call of each position
ApiOf(pc) ==
    CASE pc = "getBranch" -> "getBranch"
      [] pc = "getRepo" -> "repos.get"
      [] pc \in {"getDefaultRef", "getRef"} -> "getRef"
      [] pc = "createRef" -> "createRef"
      [] pc = "getCommit" -> "getCommit"
      [] pc \in {"blobs", "readme", "latest"} -> "createBlob"
      [] pc = "createTree" -> "createTree"
      [] pc = "createCommit" -> "createCommit"
      [] pc = "updateRef" -> "updateRef"

ApiSteps == {"getBranch", "getRepo", "getDefaultRef", "getRef", "createRef", "getCommit",
             "blobs", "readme", "latest", "createTree", "createCommit", "updateRef"}

\* mutant: a rejected request is sent once more before the run gives up
ApiFailRetried(r) ==
    /\ up[r].pc \in ApiSteps
    /\ up' = [up EXCEPT ![r].pc = "failed",
                        ![r].calls = up[r].calls \o <<ApiOf(up[r].pc), ApiOf(up[r].pc)>>,
                        ![r].error = [status |-> 500, at |-> up[r].pc]]
    /\ UNCHANGED <<refs, commits, clock, order>>
    /\ UNCHANGED notUpload

\* the request of the current position is rejected by the API (any status
\* but a 404 of getBranch): nothing changes in the repository, the catch
\* block logs the error and rethrows it
ApiFail(r) ==
    /\ up[r].pc \in ApiSteps
    /\ up' = [up EXCEPT ![r].pc = "failed", ![r].calls = Called(r, ApiOf(up[r].pc)),
                        ![r].error = [status |-> 500, at |-> up[r].pc]]
    /\ UNCHANGED <<refs, commits, clock, order>>
    /\ UNCHANGED notUpload

Finished(r) == up[r].pc \in {"done", "failed"}

\* non-overlapping runs: run r works only when every run before it has ended
\* and no run after it has started
Turn(r) == \A q \in Runs : (q < r => Finished(q)) /\ (q > r => up[q].pc = "idle")

InitUploadSeq ==
    /\ clock = 1
    /\ order = <<>>
    /\ InitRepository
    /\ up \in { u \in [Runs -> { UploadLocals(pr, sh) : pr \in PrNumbers, sh \in UploadInputs }] :
                   u[1].prNumber = 7 }
    /\ CaptureIdle
    /\ RunIdle
    /\ CommentsIdle
    /\ FsIdle
    /\ ProcIdle
    /\ ConfIdle
    /\ LoadingIdle

NextUploadSeq ==
    \/ \E r \in Runs : Turn(r) /\ StartUpload(r)
    \/ \E r \in Runs : Turn(r) /\ GetBranch(r)
    \/ \E r \in Runs : Turn(r) /\ GetRepo(r)
    \/ \E r \in Runs : Turn(r) /\ GetDefaultRef(r)
    \/ \E r \in Runs : Turn(r) /\ CreateRef(r)
    \/ \E r \in Runs : Turn(r) /\ GetRef(r)
    \/ \E r \in Runs : Turn(r) /\ GetCommit(r)
    \/ \E r \in Runs : Turn(r) /\ UploadOne(r)
    \/ \E r \in Runs : Turn(r) /\ ReadFileFail(r)
    \/ \E r \in Runs : Turn(r) /\ CreateReadme(r)
    \/ \E r \in Runs : Turn(r) /\ CreateLatest(r)
    \/ \E r \in Runs : Turn(r) /\ CreateTreeCall(r)
    \/ \E r \in Runs : Turn(r) /\ CreateCommit(r)
    \/ \E r \in Runs : Turn(r) /\ UpdateRef(r)
    \/ \E r \in Runs : Turn(r) /\ ApiFail(r)

SpecUploadSeq == InitUploadSeq /\ [][NextUploadSeq]_vars

\* two runs of the action against the same branch, interleaved at will
ConcurrentRuns == {1, 2}

InitUpload ==
    /\ clock = 1
    /\ order = <<>>
    /\ InitRepository
    /\ up \in { u \in [Runs -> { UploadLocals(pr, sh) : pr \in PrNumbers, sh \in UploadInputs }] :
                   /\ u[1].prNumber = 7
                   /\ \A r \in Runs \ ConcurrentRuns : u[r] = u[1] }
    /\ CaptureIdle
    /\ RunIdle
    /\ CommentsIdle
    /\ FsIdle
    /\ ProcIdle
    /\ ConfIdle
    /\ LoadingIdle

NextUpload ==
    \/ \E r \in ConcurrentRuns : StartUpload(r)
    \/ \E r \in ConcurrentRuns : GetBranch(r)
    \/ \E r \in ConcurrentRuns : GetRepo(r)
    \/ \E r \in ConcurrentRuns : GetDefaultRef(r)
    \/ \E r \in ConcurrentRuns : CreateRef(r)
    \/ \E r \in ConcurrentRuns : GetRef(r)
    \/ \E r \in ConcurrentRuns : GetCommit(r)
    \/ \E r \in ConcurrentRuns : UploadOne(r)
    \/ \E r \in ConcurrentRuns : ReadFileFail(r)
    \/ \E r \in ConcurrentRuns : CreateReadme(r)
    \/ \E r \in ConcurrentRuns : CreateLatest(r)
    \/ \E r \in ConcurrentRuns : CreateTreeCall(r)
    \/ \E r \in ConcurrentRuns : CreateCommit(r)
    \/ \E r \in ConcurrentRuns : UpdateRef(r)
    \/ \E r \in ConcurrentRuns : ApiFail(r)

SpecUpload == InitUpload /\ [][NextUpload]_vars

(***************************************************************************)
(* Observations on the upload protocol used by the properties              *)
(***************************************************************************)
\* the paths a started run writes: one per artifact, the README, the pointer
RunPaths(r) ==
    LET dir == ScreenshotDir(up[r].prNumber, up[r].timestamp)
    IN { FilePath(dir, up[r].screenshots[i]) : i \in 1..Len(up[r].screenshots) }
         \cup {ReadmePath(dir), LatestPath(up[r].prNumber)}

\* path q of run r is visible at the tip: the run's directory entries by
\* their presence, the latest pointer by pointing at this run
InTip(r, q) ==
    /\ q \in DOMAIN TipTree
    /\ q = LatestPath(up[r].prNumber) => TipTree[q] = LatestBlob(up[r].timestamp)

Visible(r) == { q \in RunPaths(r) : InTip(r, q) }

IsCurrent(r) == order # <<>> /\ order[Len(order)] = r

AfterBase == {"blobs", "readme", "latest", "createTree", "createCommit", "updateRef"}

CallsOf(r, api) == { i \in 1..Len(up[r].calls) : up[r].calls[i] = api }

\* every entry run r built is in the tree at the tip, with r's content
HasAll(r) ==
    /\ up[r].blobs # <<>>
    /\ \A i \in 1..Len(up[r].blobs) :
          /\ up[r].blobs[i].path \in DOMAIN TipTree
          /\ TipTree[up[r].blobs[i].path] = up[r].blobs[i].sha

(***************************************************************************)
(* C3  All-or-nothing visibility: while a run uploads (no other run        *)
(* overlapping it), the tip tree shows none of its paths until its ref     *)
(* update succeeded and all of them from then on; the ref update is the    *)
(* last API call; and a run that fails after the base was resolved leaves  *)
(* the tip where it was before its first blob was created.                 *)
(***************************************************************************)
C3_AllOrNothing ==
    \A r \in Runs :
       IsCurrent(r) =>
          /\ Visible(r) \in {{}, RunPaths(r)}
          /\ (Visible(r) = RunPaths(r)) <=> (up[r].pc = "done")
          /\ \A i \in CallsOf(r, "updateRef") : i = Len(up[r].calls)
          /\ up[r].pc = "done" => CallsOf(r, "updateRef") # {}
          /\ up[r].pc \in AfterBase => refs[ContentBranch] = up[r].tipAtBlobs
          /\ (up[r].pc = "failed" /\ up[r].error.at \in AfterBase \cup {"readFile"})
                => refs[ContentBranch] = up[r].tipAtBlobs

C3_Witness ==
    /\ up[1].pc = "done"
    /\ up[2].pc = "failed"
    /\ up[2].error.at = "createCommit"
    /\ up[2].prNumber = up[1].prNumber
    /\ IsCurrent(2)
    /\ Visible(2) = {}
    /\ Len(up[2].blobs) = Len(up[2].screenshots) + 2

(***************************************************************************)
(* C4  Unsynchronised branch: whenever two runs that write different       *)
(* directories resolved the same tip and both executed their ref update,   *)
(* the tree at the tip lacks the entries of at least one of them; nothing  *)
(* in the protocol keeps both from reaching the ref update.                *)
(***************************************************************************)
C4_LostUpdate ==
    \A r, q \in ConcurrentRuns :
       ( /\ r # q
         /\ CallsOf(r, "updateRef") # {}
         /\ CallsOf(q, "updateRef") # {}
         /\ up[r].baseSha = up[q].baseSha
         /\ ScreenshotDir(up[r].prNumber, up[r].timestamp)
               # ScreenshotDir(up[q].prNumber, up[q].timestamp) )
       => ~(HasAll(r) /\ HasAll(q))

C4_Witness ==
    \E r, q \in ConcurrentRuns :
       /\ r # q
       /\ up[r].baseSha = up[q].baseSha
       /\ up[r].pc = "done"
       /\ CallsOf(q, "updateRef") # {}
       /\ up[q].error.at = "updateRef"
       /\ up[q].error.status = 422
       /\ HasAll(r)
       /\ ~HasAll(q)
       /\ \A i \in 1..Len(up[q].screenshots) :
             FilePath(ScreenshotDir(up[q].prNumber, up[q].timestamp), up[q].screenshots[i])
                \notin DOMAIN TipTree

(***************************************************************************)
(* run(): the pipeline of index.ts                                         *)
(***************************************************************************)
\* a thrown value: an Error with its message, or a string
Thrown(isError, message, value) ==
    [isError |-> isError, message |-> message, value |-> value]

Error(message) == Thrown(TRUE, message, "")

NoThrow == Thrown(FALSE, "", "")

\* error instanceof Error ? error.message : String(error)
ErrorMessage(error) == IF error.isError THEN error.message ELSE error.value

NoScreenshotsMessage ==
    "No screenshots were captured. Check your configuration and logs above."
InstallMessage ==
    "Failed to install Playwright browsers. This is required for screenshot capture."
NoConfigMessage == "No URL provided and could not detect framework automatically."

\* what the collaborators of run() can throw
ConfigErrors == { Error(NoConfigMessage), Error("Failed to load config: bad yaml") }
CaptureErrors == { Error("browserType.launch: Executable doesn't exist") }
UploadErrors == { Error("Not Found"), Error("Update is not a fast forward"),
                  Thrown(FALSE, "", "timeout") }
CommentErrors == { Error("Resource not accessible by integration") }

\* mutant: the catch block wraps what it caught in a new Error
UploadCatchWrapped(error) == Error("Upload failed: " \o ErrorMessage(error))

\* the catch block of uploadScreenshots: log, then throw error
UploadCatch(error) == error

\* core.getInput('fail-on-error') === 'true'
IsTrue(input) == input = "true"

\* output.branch of DEFAULT_CONFIG and of createSimpleConfig
DefaultOutputBranch == "gh-screenshots"

\* output.branch of the base configuration: the config file's value, or the
\* default of normalizeConfig, createSimpleConfig and the detected framework
BaseBranches == {DefaultOutputBranch, "screens"}

\* the values of the branch input: the action's default, another name, or empty
BranchInputs == {"", DefaultOutputBranch, "shots"}

\* the part of a Config run() passes on: output.branch
BaseConfig(b) == [output |-> [branch |-> b]]

NoConfig == BaseConfig("")

\* applyActionOverrides: result.output.branch = overrides.branch when that is
\* truthy (the url override rewrites the screenshots, which are not part of
\* this record)
applyActionOverrides(cfg, overrides) ==
    IF overrides.branch # ""
    THEN [cfg EXCEPT !.output.branch = overrides.branch]
    ELSE cfg

\* the two exec calls of the install block, in order
InstallCommands == <<"npm install -g playwright", "playwright install --with-deps">>

\* the commands the tests expect of an availability check; run() has none
AvailabilityCommands == {"playwright --version", "playwright list"}

\* the values of an environment variable: unset, or set
EnvValues == {"", "true"}

\* !process.env.LOCAL_TEST && process.env.GITHUB_ACTIONS
InstallEnv == run.env.LOCAL_TEST = "" /\ run.env.GITHUB_ACTIONS # ""

InitRun ==
    /\ run \in { [pc |-> "start", failOnErrorInput |-> f, skipCommentInput |-> sc,
                  skipPlaywrightInstallInput |-> sp, branchInput |-> br,
                  eventName |-> ev, env |-> [GITHUB_ACTIONS |-> ga, LOCAL_TEST |-> lt],
                  installFailed |-> 0, captured |-> -1,
                  config |-> NoConfig, uploadBranch |-> "",
                  uploadedUrls |-> <<>>, commentArg |-> <<>>, calls |-> <<>>,
                  rejection |-> NoThrow,
                  thrown |-> NoThrow, errorMessage |-> "", failed |-> "",
                  warned |-> FALSE, exitCode |-> -1] :
                    f \in {"true", "false", ""}, sc \in {"true", "false"},
                    sp \in {"true", "false"}, br \in BranchInputs,
                    ev \in {"pull_request", "push"},
                    ga \in EnvValues, lt \in EnvValues }
    /\ CaptureIdle
    /\ UploadIdle
    /\ CommentsIdle
    /\ FsIdle
    /\ ProcIdle
    /\ ConfIdle
    /\ LoadingIdle

Call(name) == Append(run.calls, name)

\* loadConfiguration: the config is loaded from the file, built from the url
\* input or detected, then the action inputs are applied to it
ResolveConfig ==
    /\ run.pc = "start"
    /\ \E b \in BaseBranches :
          run' = [run EXCEPT !.pc = "install",
                             !.config = applyActionOverrides(BaseConfig(b),
                                            [branch |-> run.branchInput])]
    /\ UNCHANGED notRun

\* loadConfig throws, or nothing was detected: throw new Error(...)
ResolveConfigFail ==
    /\ run.pc = "start"
    /\ \E e \in ConfigErrors : run' = [run EXCEPT !.pc = "catch", !.thrown = e]
    /\ UNCHANGED notRun

\* !process.env.LOCAL_TEST && process.env.GITHUB_ACTIONS is false
SkipInstall ==
    /\ run.pc = "install"
    /\ ~InstallEnv
    /\ run' = [run EXCEPT !.pc = "capture"]
    /\ UNCHANGED notRun

\* npm install -g playwright and playwright install --with-deps succeed
Install ==
    /\ run.pc = "install"
    /\ InstallEnv
    /\ run' = [run EXCEPT !.pc = "capture", !.calls = run.calls \o InstallCommands]
    /\ UNCHANGED notRun

\* mutant: a rejected exec call is logged and the run goes on
InstallFailIgnored ==
    /\ run.pc = "install"
    /\ InstallEnv
    /\ \E k \in 1..Len(InstallCommands) :
          run' = [run EXCEPT !.pc = "capture",
                             !.calls = run.calls \o SubSeq(InstallCommands, 1, k),
                             !.installFailed = k]
    /\ UNCHANGED notRun

\* one of the two exec calls rejects: throw new Error('Failed to install ...')
InstallFail ==
    /\ run.pc = "install"
    /\ InstallEnv
    /\ \E k \in 1..Len(InstallCommands) :
          run' = [run EXCEPT !.pc = "catch",
                             !.calls = run.calls \o SubSeq(InstallCommands, 1, k),
                             !.installFailed = k,
                             !.thrown = Error(InstallMessage)]
    /\ UNCHANGED notRun

\* screenshots = await captureScreenshots(config, {browsers})
Capture ==
    /\ run.pc = "capture"
    /\ \E n \in 0..MaxTargets :
          run' = [run EXCEPT !.pc = IF n = 0 THEN "zero" ELSE "upload",
                             !.captured = n, !.calls = Call("captureScreenshots")]
    /\ UNCHANGED notRun

\* captureScreenshots rejects (mkdir, launch or close)
CaptureThrows ==
    /\ run.pc = "capture"
    /\ \E e \in CaptureErrors :
          run' = [run EXCEPT !.pc = "catch", !.calls = Call("captureScreenshots"),
                             !.thrown = e]
    /\ UNCHANGED notRun

\* mutant: the empty result is not tested and the pipeline goes on
NoScreenshotsIgnored ==
    /\ run.pc = "zero"
    /\ run' = [run EXCEPT !.pc = "upload"]
    /\ UNCHANGED notRun

\* if (screenshots.length === 0): setFailed and process.exit(1) when
\* failOnError, otherwise return
NoScreenshots ==
    /\ run.pc = "zero"
    /\ IF IsTrue(run.failOnErrorInput)
       THEN run' = [run EXCEPT !.pc = "exited", !.failed = NoScreenshotsMessage,
                               !.exitCode = 1]
       ELSE run' = [run EXCEPT !.pc = "returned"]
    /\ UNCHANGED notRun

\* uploadedUrls = await uploadScreenshots(screenshots, {branch, token, context}):
\* one url each; branch is the value of the branch input
Upload ==
    /\ run.pc = "upload"
    /\ run' = [run EXCEPT !.pc = "comment", !.uploadBranch = run.branchInput,
                          !.uploadedUrls = [i \in 1..run.captured |-> <<"url", i>>],
                          !.calls = Call("uploadScreenshots")]
    /\ UNCHANGED notRun

\* uploadScreenshots rejects with what its catch block rethrows
UploadThrows ==
    /\ run.pc = "upload"
    /\ \E e \in UploadErrors :
          run' = [run EXCEPT !.pc = "catch", !.calls = Call("uploadScreenshots"),
                             !.uploadBranch = run.branchInput,
                             !.rejection = e, !.thrown = UploadCatch(e)]
    /\ UNCHANGED notRun

\* mutant: the event is not looked at
ShouldCommentAnyEvent == ~IsTrue(run.skipCommentInput)

\* !skipComment && context.eventName === 'pull_request'
ShouldComment == ~IsTrue(run.skipCommentInput) /\ run.eventName = "pull_request"

\* the condition is false: the comment is not posted
SkipComment ==
    /\ run.pc = "comment"
    /\ ~ShouldComment
    /\ run' = [run EXCEPT !.pc = "returned"]
    /\ UNCHANGED notRun

\* await postComment(uploadedUrls, ...) resolves
PostCommentCall ==
    /\ run.pc = "comment"
    /\ ShouldComment
    /\ run' = [run EXCEPT !.pc = "returned", !.calls = Call("postComment"),
                          !.commentArg = run.uploadedUrls]
    /\ UNCHANGED notRun

\* postComment rejects
PostCommentThrows ==
    /\ run.pc = "comment"
    /\ ShouldComment
    /\ \E e \in CommentErrors :
          run' = [run EXCEPT !.pc = "catch", !.calls = Call("postComment"),
                             !.commentArg = run.uploadedUrls, !.thrown = e]
    /\ UNCHANGED notRun

\* mutant: the catch block fails the run whatever the input says
HandleErrorFailing ==
    /\ run.pc = "catch"
    /\ run' = [run EXCEPT !.pc = "exited", !.errorMessage = ErrorMessage(run.thrown),
                          !.failed = ErrorMessage(run.thrown), !.exitCode = 1]
    /\ UNCHANGED notRun

\* the catch block of run(): setFailed(errorMessage) and process.exit(1)
\* when the fail-on-error input is 'true', a warning otherwise
HandleError ==
    /\ run.pc = "catch"
    /\ LET errorMessage == ErrorMessage(run.thrown) IN
       IF IsTrue(run.failOnErrorInput)
       THEN run' = [run EXCEPT !.pc = "exited", !.errorMessage = errorMessage,
                               !.failed = errorMessage, !.exitCode = 1]
       ELSE run' = [run EXCEPT !.pc = "returned", !.errorMessage = errorMessage,
                               !.warned = TRUE]
    /\ UNCHANGED notRun

NextRun ==
    \/ ResolveConfig
    \/ ResolveConfigFail
    \/ SkipInstall
    \/ Install
    \/ InstallFail
    \/ Capture
    \/ CaptureThrows
    \/ NoScreenshots
    \/ Upload
    \/ UploadThrows
    \/ SkipComment
    \/ PostCommentCall
    \/ PostCommentThrows
    \/ HandleError

SpecRun == InitRun /\ [][NextRun]_vars

(***************************************************************************)
(* Claims about run()                                                      *)
(***************************************************************************)
Invoked(name) == \E i \in 1..Len(run.calls) : run.calls[i] = name

MarkedFailed == run.failed # ""

\* C5: whenever captureScreenshots returned zero artifacts, neither
\* uploadScreenshots nor postComment is invoked in that run; once the run
\* has passed the test of the empty result it has, with fail-on-error true,
\* been marked failed and exited with code 1, and with fail-on-error not
\* true it has returned without being marked failed.
C5_TotalCaptureFailure ==
    run.captured = 0 =>
        /\ ~Invoked("uploadScreenshots")
        /\ ~Invoked("postComment")
        /\ \/ run.pc = "zero"
           \/ /\ IsTrue(run.failOnErrorInput)
              /\ run.pc = "exited"
              /\ MarkedFailed
              /\ run.exitCode = 1
           \/ /\ ~IsTrue(run.failOnErrorInput)
              /\ run.pc = "returned"
              /\ ~MarkedFailed
              /\ run.exitCode = -1

C5_Witness ==
    /\ run.captured = 0
    /\ Invoked("captureScreenshots")
    /\ run.pc = "exited"
    /\ run.failed = NoScreenshotsMessage
    /\ run.exitCode = 1

UploadThrew == run.rejection # NoThrow

\* C6: if uploadScreenshots throws, postComment is never invoked in that
\* run, what reaches the catch block of run() is the value that was thrown
\* inside uploadScreenshots, and once the handler has run the run is marked
\* failed with that value's message and exit code 1 exactly when the
\* fail-on-error input is true.
C6_UploadFailureFatal ==
    UploadThrew =>
        /\ ~Invoked("postComment")
        /\ run.thrown = run.rejection
        /\ \/ run.pc = "catch"
           \/ /\ IsTrue(run.failOnErrorInput)
              /\ run.pc = "exited"
              /\ run.failed = ErrorMessage(run.rejection)
              /\ MarkedFailed
              /\ run.exitCode = 1
           \/ /\ ~IsTrue(run.failOnErrorInput)
              /\ run.pc = "returned"
              /\ run.errorMessage = ErrorMessage(run.rejection)
              /\ ~MarkedFailed
              /\ run.exitCode = -1

C6_Witness ==
    /\ UploadThrew
    /\ run.rejection.isError
    /\ run.captured > 0
    /\ run.pc = "exited"
    /\ run.failed = "Not Found"
    /\ run.exitCode = 1

(***************************************************************************)
(* The comment of the pull request: postComment and the comment cleanup    *)
(***************************************************************************)
MaxPosts == 3
MaxHuman == 2

\* the signature the tool's comments carry
Marker == "<!-- auto-pr-screenshots -->"

\* the visible heading of the comment (it starts with a camera emoji)
Heading == "**PR Screenshots**"

\* a body is the sequence of its fragments; body.includes(text)
Includes(body, text) == \E i \in 1..Len(body) : body[i] = text

\* mutant: the filter looks for the visible heading only
IsScreenshotCommentByHeading(comment) == Includes(comment.body, Heading)

\* the filter of deleteScreenshotComments
IsScreenshotComment(comment) ==
    \/ Includes(comment.body, Marker)
    \/ Includes(comment.body, Heading)

UploadedScreenshot(name, bName) ==
    [name |-> name, browser |-> bName, url |-> <<"raw", Filename(name, bName)>>]

\* the batches of uploaded screenshots the runs render
UploadedBatches ==
    { <<UploadedScreenshot("home", "chromium")>>,
      <<UploadedScreenshot("home", "chromium"), UploadedScreenshot("about", "firefox")>> }

\* what people write on the pull request
HumanBodies == { <<"LGTM">>, <<"old run said", Heading>> }

\* the rendered body: the marker, then one fragment for each screenshot
GenerateCommentBody(shots) ==
    <<Marker>> \o [i \in 1..Len(shots) |-> shots[i].name]

\* ids are given in creation order
NextId == Len(posted) + Len(comments) + 1

\* the positions of the comments that carry the marker
Existing == { i \in 1..Len(comments) : Includes(comments[i].body, Marker) }

\* one request sent to the GitHub API by the cleanup; id is the comment's id
\* (0 for the requests that name no comment)
Api(name, id) == [api |-> name, id |-> id]

RECURSIVE Without(_, _)
\* the comments without the one whose id is given
Without(list, id) ==
    IF list = <<>> THEN <<>>
    ELSE IF Head(list).id = id THEN Tail(list)
    ELSE <<Head(list)>> \o Without(Tail(list), id)

InitComments ==
    /\ comments \in { <<>>, <<[id |-> 1, by |-> "human", body |-> <<"LGTM">>]>> }
    /\ posted = <<>>
    /\ cleanup = [pc |-> "idle", ids |-> <<>>, deleted |-> 0, humans |-> 0,
                  calls |-> <<>>, errors |-> <<>>]
    /\ CaptureIdle
    /\ UploadIdle
    /\ RunIdle
    /\ FsIdle
    /\ ProcIdle
    /\ ConfIdle
    /\ LoadingIdle

\* someone comments on the pull request
HumanComment ==
    /\ cleanup.pc = "idle"
    /\ cleanup.humans < MaxHuman
    /\ \E body \in HumanBodies :
          comments' = Append(comments, [id |-> NextId, by |-> "human", body |-> body])
    /\ cleanup' = [cleanup EXCEPT !.humans = @ + 1]
    /\ UNCHANGED posted
    /\ UNCHANGED notComments

\* postComment: the comment that carries the marker is replaced, and when
\* there is none a comment is created
PostComment ==
    /\ cleanup.pc = "idle"
    /\ Len(posted) < MaxPosts
    /\ \E shots \in UploadedBatches :
          LET body == GenerateCommentBody(shots) IN
          /\ posted' = Append(posted, body)
          /\ IF Existing # {}
             THEN LET i == CHOOSE k \in Existing : \A j \in Existing : k <= j
                  IN comments' = [comments EXCEPT ![i].body = body]
             ELSE comments' = Append(comments,
                                     [id |-> NextId, by |-> "tool", body |-> body])
    /\ UNCHANGED cleanup
    /\ UNCHANGED notComments

\* mutant: every listed comment is taken, the filter is left out
ListCommentsAll ==
    /\ cleanup.pc = "idle"
    /\ cleanup' = [cleanup EXCEPT !.pc = "deleting",
                                  !.ids = [i \in 1..Len(comments) |-> comments[i].id],
                                  !.calls = Append(@, Api("listComments", 0))]
    /\ UNCHANGED <<comments, posted>>
    /\ UNCHANGED notComments

\* deleteScreenshotComments: listComments, then the filter
ListComments ==
    /\ cleanup.pc = "idle"
    /\ LET found == SelectSeq(comments, IsScreenshotComment) IN
       cleanup' = [cleanup EXCEPT !.pc = "deleting",
                                  !.ids = [i \in 1..Len(found) |-> found[i].id],
                                  !.calls = Append(@, Api("listComments", 0))]
    /\ UNCHANGED <<comments, posted>>
    /\ UNCHANGED notComments

\* mutant: the rejection of listComments leaves the function
ListCommentsFailThrows ==
    /\ cleanup.pc = "idle"
    /\ cleanup' = [cleanup EXCEPT !.pc = "thrown",
                                  !.calls = Append(@, Api("listComments", 0)),
                                  !.errors = Append(@, "listComments")]
    /\ UNCHANGED <<comments, posted>>
    /\ UNCHANGED notComments

\* listComments rejects: the error is logged and not thrown
ListCommentsFail ==
    /\ cleanup.pc = "idle"
    /\ cleanup' = [cleanup EXCEPT !.pc = "done",
                                  !.calls = Append(@, Api("listComments", 0)),
                                  !.errors = Append(@, "listComments")]
    /\ UNCHANGED <<comments, posted>>
    /\ UNCHANGED notComments

\* deleteComment of the next comment found
DeleteComment ==
    /\ cleanup.pc = "deleting"
    /\ cleanup.ids # <<>>
    /\ comments' = Without(comments, Head(cleanup.ids))
    /\ cleanup' = [cleanup EXCEPT !.ids = Tail(@), !.deleted = @ + 1,
                                  !.calls = Append(@, Api("deleteComment", Head(cleanup.ids)))]
    /\ UNCHANGED posted
    /\ UNCHANGED notComments

\* deleteComment rejects: the loop ends, the error is logged and not thrown
DeleteCommentFail ==
    /\ cleanup.pc = "deleting"
    /\ cleanup.ids # <<>>
    /\ cleanup' = [cleanup EXCEPT !.pc = "done",
                                  !.calls = Append(@, Api("deleteComment", Head(cleanup.ids))),
                                  !.errors = Append(@, "deleteComment")]
    /\ UNCHANGED <<comments, posted>>
    /\ UNCHANGED notComments

\* every comment found has been deleted
DeleteDone ==
    /\ cleanup.pc = "deleting"
    /\ cleanup.ids = <<>>
    /\ cleanup' = [cleanup EXCEPT !.pc = "done"]
    /\ UNCHANGED <<comments, posted>>
    /\ UNCHANGED notComments

NextComments ==
    \/ HumanComment
    \/ PostComment
    \/ ListComments
    \/ ListCommentsFail
    \/ DeleteComment
    \/ DeleteCommentFail
    \/ DeleteDone

SpecComments == InitComments /\ [][NextComments]_vars

ToolComments == { i \in 1..Len(comments) : comments[i].by = "tool" }

\* C7: every body the tool has produced carries the same marker; once a
\* run has posted, and until the cleanup deletes, the pull request has
\* exactly one comment of the tool, its body is the body of the latest
\* run; every comment of the tool is matched by the filter that
\* deleteScreenshotComments uses, so that a cleanup that ran to its end
\* leaves none.
C7_IdempotentComment ==
    /\ \A k \in 1..Len(posted) : posted[k][1] = Marker
    /\ Cardinality(ToolComments) <= 1
    /\ \A i \in ToolComments : IsScreenshotComment(comments[i])
    /\ (posted # <<>> /\ cleanup.deleted = 0) =>
          /\ Cardinality(ToolComments) = 1
          /\ \A i \in ToolComments : comments[i].body = posted[Len(posted)]
    /\ (cleanup.pc = "done" /\ cleanup.ids = <<>> /\ cleanup.deleted > 0) =>
          ToolComments = {}

C7_Witness ==
    /\ Len(posted) = MaxPosts
    /\ posted[1] # posted[MaxPosts]
    /\ Cardinality(ToolComments) = 1
    /\ Len(comments) > 1
    /\ cleanup.pc = "idle"

(***************************************************************************)
(* Further claims about the capture engine                                 *)
(***************************************************************************)
\* the pair held in cur has ended
CurEnded == cur.t > 0 /\ cpc # "pair"

\* the stages of captureScreenshot that follow the target's waitFor
AfterWaitFor == {"wait", "steps", "screenshot", "ctxClose"}

\* C11: a timeout of the target's waitFor never ends the pair: the pair goes
\* on with the delay (when configured), the steps and the screenshot, and
\* when none of these later stages fails the pair's artifact is appended;
\* a pair whose goto rejected took no screenshot and ends without artifact.
C11_WaitForTimeoutSwallowed ==
    /\ cur.failedAt # "waitFor"
    /\ (cur.waitForTimedOut /\ cpc = "pair") =>
          /\ stage \in AfterWaitFor
          /\ (config.wait /\ stage # "wait") =>
                \E i \in 1..Len(cur.ran) : cur.ran[i] = "wait"
    /\ (cur.waitForTimedOut /\ CurEnded /\ cur.failedAt = "none") =>
          /\ cur.shot
          /\ cur.steps = FieldsFrom(targets[cur.t].steps, 1, 1)
          /\ \E i \in 1..Len(log) : log[i] = Event("end", cur.b, cur.t, TRUE)
          /\ screenshots # <<>>
          /\ screenshots[Len(screenshots)]
                = CapturedScreenshot(targets[cur.t], browserList[cur.b])
    /\ cur.failedAt = "goto" =>
          /\ ~cur.shot
          /\ \A i \in 1..Len(cur.ran) : cur.ran[i] \in {"newContext", "newPage"}
          /\ \A i \in 1..Len(log) :
                (log[i].ev = "end" /\ log[i].b = cur.b /\ log[i].t = cur.t) => ~log[i].ok
          /\ Len(screenshots) = Len(OkEnds)

C11_Witness ==
    /\ cur.waitForTimedOut
    /\ CurEnded
    /\ cur.failedAt = "none"
    /\ targets[cur.t].wait
    /\ Len(cur.steps) > 0
    /\ screenshots # <<>>
    /\ screenshots[Len(screenshots)].name = "about"

\* the positions of the browser list that hold no engine of BROWSER_MAP
UnknownPositions == { b \in 1..Len(browserList) : browserList[b] \notin BROWSER_MAP }

\* C12: for an unknown engine identifier in the browser list no browser is
\* launched and no artifact is produced, captureScreenshots does not throw
\* at it, and when captureScreenshots returns every known engine of the
\* list, before and after it, was tried on every target.
C12_UnknownEngineSkipped ==
    \A b \in UnknownPositions :
       /\ \A i \in 1..Len(log) : log[i].b = b => log[i].ev = "skip"
       /\ \A i \in 1..Len(screenshots) : screenshots[i].browser # browserList[b]
       /\ cpc = "returned" =>
             \A p \in KnownPairs : \E i \in 1..Len(log) :
                log[i].ev = "end" /\ log[i].b = p[1] /\ log[i].t = p[2]

\* the identifier "constructor" passes the test !BROWSER_MAP[browserName]
\* and captureScreenshots throws at its launch, after the engine before it
\* was processed
C12_Witness ==
    /\ cpc = "thrown"
    /\ browserList[bi] = "constructor"
    /\ log[Len(log)] = Event("throw", bi, 0, FALSE)
    /\ \E i \in 1..Len(log) : log[i] = Event("close", 1, 0, TRUE)
    /\ screenshots # <<>>

(***************************************************************************)
(* Further claims about the upload protocol                                *)
(***************************************************************************)
\* the runs that returned
DoneRuns == { r \in Runs : up[r].pc = "done" }

\* the commit the content branch started from: the one an earlier run left,
\* or the default branch's tip the first run created the branch at
BranchOrigin == IF Len(commits) >= 2 /\ commits[2] = EarlierCommit THEN 2 ELSE 1

HistoryOfTip == History(refs[ContentBranch])

\* C13: a run that returned made one commit, whose only parent is the tip
\* the run resolved; with runs one after another the history of the branch
\* is the history of the commit the branch started from plus one commit for
\* each run that returned, every commit with at most one parent.
C13_LinearAppend ==
    /\ \A r \in DoneRuns :
          /\ commits[up[r].commitSha].parents = <<up[r].baseSha>>
          /\ up[r].baseSha = up[r].tipAtBlobs
          /\ Cardinality(CallsOf(r, "createCommit")) = 1
    /\ \A r \in DoneRuns : IsCurrent(r) => refs[ContentBranch] = up[r].commitSha
    /\ refs[ContentBranch] # 0 =>
          /\ HistoryOfTip = History(BranchOrigin) \cup { up[r].commitSha : r \in DoneRuns }
          /\ Cardinality(HistoryOfTip)
                = Cardinality(History(BranchOrigin)) + Cardinality(DoneRuns)
          /\ \A c \in HistoryOfTip : Len(commits[c].parents) <= 1

C13_Witness ==
    /\ DoneRuns = Runs
    /\ BranchOrigin = 2
    /\ Cardinality(HistoryOfTip) = NumRuns + 2
    /\ Len(commits) = NumRuns + 2

\* the paths run r handed to createTree
WrittenPaths(r) == { up[r].blobs[i].path : i \in 1..Len(up[r].blobs) }

\* the artifact files of run r, by path and content
ArtifactEntries(r) ==
    { [path |-> FilePath(ScreenshotDir(up[r].prNumber, up[r].timestamp),
                         up[r].screenshots[i]),
       sha |-> FileBlob(up[r].screenshots[i])] : i \in 1..Len(up[r].screenshots) }

\* the artifact file the commit of the earlier run holds
EarlierEntry ==
    [path |-> <<PrDir(7), "t0", "home-chromium.png">>,
     sha |-> FileBlob(CapturedScreenshot([name |-> "home"], "chromium"))]

\* C14: in the tree of the commit a returned run made, every path of the
\* tree of its base commit that the run did not write is present with the
\* same content; with runs one after another, whose timestamps differ, the
\* artifact files of every run that returned, and those the branch started
\* with, are in the tree at the tip.
C14_AdditiveTree ==
    /\ \A r \in DoneRuns :
          LET base == commits[up[r].baseSha].tree
              new == commits[up[r].commitSha].tree
          IN \A q \in DOMAIN base :
                q \notin WrittenPaths(r) => (q \in DOMAIN new /\ new[q] = base[q])
    /\ \A r \in DoneRuns : \A e \in ArtifactEntries(r) :
          e.path \in DOMAIN TipTree /\ TipTree[e.path] = e.sha
    /\ (BranchOrigin = 2 /\ refs[ContentBranch] # 0) =>
          (EarlierEntry.path \in DOMAIN TipTree /\ TipTree[EarlierEntry.path] = EarlierEntry.sha)
    /\ refs[ContentBranch] # 0 =>
          (<<"README.md">> \in DOMAIN TipTree
             /\ TipTree[<<"README.md">>] = InitialCommit.tree[<<"README.md">>])

C14_Witness ==
    /\ DoneRuns = Runs
    /\ BranchOrigin = 2
    /\ \A r \in Runs : up[r].prNumber = 7
    /\ \A r, q \in Runs : r # q => up[r].timestamp # up[q].timestamp
    /\ \A e \in ArtifactEntries(1) : e.path \in DOMAIN TipTree
    /\ TipTree[LatestPath(7)] = LatestBlob(up[NumRuns].timestamp)

\* run r has called createTree successfully
TreeCreated(r) == up[r].pc \in {"createCommit", "updateRef", "done"}

\* the entries run r passed to createTree are one per artifact, in the run's
\* directory, with pairwise distinct paths, then the README and the pointer
EntriesExactlyOnce(r) ==
    LET n == Len(up[r].screenshots)
        dir == ScreenshotDir(up[r].prNumber, up[r].timestamp)
    IN /\ Len(up[r].blobs) = n + 2
       /\ \A i \in 1..n :
             /\ up[r].blobs[i] = [path |-> FilePath(dir, up[r].screenshots[i]),
                                  sha |-> FileBlob(up[r].screenshots[i])]
             /\ IsPrefix(dir, up[r].blobs[i].path)
             /\ up[r].treeSha[up[r].blobs[i].path] = up[r].blobs[i].sha
       /\ \A i, j \in 1..(n + 2) : up[r].blobs[i].path = up[r].blobs[j].path => i = j
       /\ up[r].blobs[n + 1].path = ReadmePath(dir)
       /\ up[r].blobs[n + 2].path = LatestPath(up[r].prNumber)

\* the artifacts handed to run r are files with pairwise distinct names
DistinctBasenames(r) ==
    \A i, j \in 1..Len(up[r].screenshots) :
       Basename(up[r].screenshots[i].path) = Basename(up[r].screenshots[j].path) => i = j

\* C15 as stated: the entries passed to createTree hold one entry per
\* artifact, all with pairwise distinct paths under pr-<n>/<timestamp>/,
\* plus one README entry and one latest entry.
C15_Original == \A r \in Runs : TreeCreated(r) => EntriesExactlyOnce(r)

\* C15 amended: the same, for artifact lists whose files have pairwise
\* distinct names.
C15_Amended ==
    \A r \in Runs : (TreeCreated(r) /\ DistinctBasenames(r)) => EntriesExactlyOnce(r)

C15_Witness ==
    \E r \in Runs :
       /\ up[r].pc = "done"
       /\ Len(up[r].screenshots) = 2
       /\ DistinctBasenames(r)
       /\ Len(up[r].blobs) = 4
       /\ Cardinality(WrittenPaths(r)) = 4

\* C16: a run that returned gives back one record for each input artifact,
\* in input order, with the artifact's name and browser; the url of each is
\* the raw-content address of owner, repo and branch followed by the path
\* pr-<n>/<timestamp>/<base name> of the entry committed for that artifact,
\* so all urls of the run lie in the run's one timestamp directory.
C16_PublishedArtifacts ==
    \A r \in DoneRuns :
       LET dir == ScreenshotDir(up[r].prNumber, up[r].timestamp)
           out == up[r].uploadedScreenshots
       IN /\ Len(out) = Len(up[r].screenshots)
          /\ \A i \in 1..Len(out) :
                /\ out[i].name = up[r].screenshots[i].name
                /\ out[i].browser = up[r].screenshots[i].browser
                /\ out[i].url = <<"https://raw.githubusercontent.com", Owner, Repo,
                                  ContentBranch, PrDir(up[r].prNumber), up[r].timestamp,
                                  Basename(up[r].screenshots[i].path)>>
                /\ SubSeq(out[i].url, 5, Len(out[i].url)) = up[r].blobs[i].path
                /\ up[r].blobs[i].path \in DOMAIN commits[up[r].commitSha].tree
                /\ SubSeq(out[i].url, 5, 6) = dir

C16_Witness ==
    \E r \in DoneRuns :
       /\ Len(up[r].uploadedScreenshots) = 2
       /\ up[r].uploadedScreenshots[1].name = "home"
       /\ up[r].uploadedScreenshots[2].name = "about"
       /\ up[r].uploadedScreenshots[2].url[7] = "about-chromium.png"
       /\ up[r].uploadedScreenshots[1].url[6] = up[r].uploadedScreenshots[2].url[6]

\* the runs for pull request pr that returned
DoneRunsOf(pr) == { r \in DoneRuns : up[r].prNumber = pr }

\* the most recent of them: with runs one after another, the last in order
MostRecent(pr) == CHOOSE r \in DoneRunsOf(pr) : \A q \in DoneRunsOf(pr) : q <= r

\* C17: with runs one after another, once a run for a pull request has
\* returned, pr-<n>/latest at the tip holds the timestamp of the most recent
\* returned run for that pull request, and that run's artifact files are in
\* the same tree under pr-<n>/<that timestamp>/.
C17_LatestPointer ==
    \A pr \in PrNumbers :
       DoneRunsOf(pr) # {} =>
          LET m == MostRecent(pr)
          IN /\ LatestPath(pr) \in DOMAIN TipTree
             /\ TipTree[LatestPath(pr)] = LatestBlob(up[m].timestamp)
             /\ TipTree[LatestPath(pr)].content = <<up[m].timestamp>>
             /\ \A e \in ArtifactEntries(m) :
                   /\ e.path \in DOMAIN TipTree
                   /\ TipTree[e.path] = e.sha
                   /\ SubSeq(e.path, 1, 2) = <<PrDir(pr), up[m].timestamp>>

C17_Witness ==
    /\ DoneRuns = Runs
    /\ \A r \in Runs : up[r].prNumber = 7
    /\ BranchOrigin = 2
    /\ TipTree[LatestPath(7)] = LatestBlob(up[NumRuns].timestamp)
    /\ up[1].timestamp # up[NumRuns].timestamp

\* the branch lookup of run r was answered
LookedUp(r) == up[r].calls # <<>> /\ ~(up[r].pc = "failed" /\ up[r].error.at = "getBranch")

\* run r has left the branch resolution behind
BaseResolved(r) ==
    \/ up[r].pc \in AfterBase \cup {"getCommit", "done"}
    \/ up[r].pc = "failed" /\ up[r].error.at \in AfterBase \cup {"getCommit", "readFile"}

\* C18: after a 404 of the lookup the run creates the branch at the tip of
\* the default branch and that tip is the parent of its commit; when the
\* branch exists the run creates no ref and the branch's tip is the parent;
\* when the lookup fails otherwise the run ends with that error and has
\* made no other call.
C18_BranchResolution ==
    \A r \in Runs :
       /\ (LookedUp(r) /\ ~up[r].branchExists /\ BaseResolved(r)) =>
             /\ SubSeq(up[r].calls, 1, 4) = <<"getBranch", "repos.get", "getRef", "createRef">>
             /\ up[r].baseSha = refs[DefaultBranch]
             /\ refs[ContentBranch] # 0
             /\ up[r].tipAtBlobs \in {0, refs[DefaultBranch]}
             /\ up[r].commitSha # 0 =>
                   commits[up[r].commitSha].parents = <<refs[DefaultBranch]>>
       /\ (LookedUp(r) /\ up[r].branchExists) =>
             /\ CallsOf(r, "createRef") = {}
             /\ CallsOf(r, "repos.get") = {}
             /\ BaseResolved(r) =>
                   /\ SubSeq(up[r].calls, 1, 2) = <<"getBranch", "getRef">>
                   /\ up[r].baseSha # 0
                   /\ up[r].tipAtBlobs \in {0, up[r].baseSha}
                   /\ up[r].commitSha # 0 =>
                         commits[up[r].commitSha].parents = <<up[r].baseSha>>
       /\ (up[r].pc = "failed" /\ up[r].error.at = "getBranch") =>
             /\ up[r].calls = <<"getBranch">>
             /\ up[r].error.status \notin {0, 404}
             /\ up[r].blobs = <<>>
             /\ up[r].treeSha = <<>>
             /\ up[r].commitSha = 0
             /\ IsCurrent(r) => refs[ContentBranch] \in {0} \cup { up[q].commitSha : q \in DoneRuns }
                                   \cup {BranchOrigin}

C18_Witness ==
    /\ up[1].pc = "done"
    /\ ~up[1].branchExists
    /\ commits[up[1].commitSha].parents = <<refs[DefaultBranch]>>
    /\ up[2].branchExists
    /\ up[2].pc = "done"
    /\ commits[up[2].commitSha].parents = <<up[1].commitSha>>

\* the API calls of a run that meets no failure, in order
ExpectedCalls(r) ==
    (IF up[r].branchExists THEN <<"getBranch", "getRef">>
     ELSE <<"getBranch", "repos.get", "getRef", "createRef">>)
    \o <<"getCommit">>
    \o [i \in 1..(Len(up[r].screenshots) + 2) |-> "createBlob"]
    \o <<"createTree", "createCommit", "updateRef">>

\* what the caller of run r receives from the catch block
Rethrown(r) == UploadCatch(up[r].error)

\* C19: the API calls a run has made are an initial part of the calls of a
\* run without failure, where every primitive occurs once (createBlob once
\* for each artifact, for the README and for the pointer); a run that
\* returned made all of them; a run that failed made no call after the one
\* that was rejected, and its caller receives the error of that call.
C19_NoInternalRetry ==
    \A r \in ConcurrentRuns :
       /\ IsPrefix(up[r].calls, ExpectedCalls(r))
       /\ Cardinality(CallsOf(r, "createBlob")) <= Len(up[r].screenshots) + 2
       /\ \A api \in {"getBranch", "repos.get", "createRef", "getCommit", "createTree",
                      "createCommit", "updateRef"} : Cardinality(CallsOf(r, api)) <= 1
       /\ up[r].pc = "done" => up[r].calls = ExpectedCalls(r)
       /\ up[r].pc = "failed" =>
             /\ up[r].error # NoError
             /\ Rethrown(r) = up[r].error
             /\ up[r].error.at # "readFile" =>
                   /\ up[r].calls # <<>>
                   /\ up[r].calls[Len(up[r].calls)] = ApiOf(up[r].error.at)
             /\ up[r].error.at = "readFile" =>
                   Cardinality(CallsOf(r, "createBlob")) = Len(up[r].blobs)

C19_Witness ==
    \E r, q \in ConcurrentRuns :
       /\ up[r].pc = "failed"
       /\ up[r].error = [status |-> 422, at |-> "updateRef"]
       /\ up[r].calls = ExpectedCalls(r)
       /\ up[q].pc = "done"
       /\ up[q].calls = ExpectedCalls(q)
       /\ Len(up[q].screenshots) = 2

(***************************************************************************)
(* Further claims about run()                                              *)
(***************************************************************************)
\* uploadScreenshots was awaited and resolved
UploadReturned == Invoked("uploadScreenshots") /\ ~UploadThrew

\* the run has left the if around postComment behind
PastComment == UploadReturned /\ run.pc # "comment"

\* C20: postComment is invoked at most once in a run; if it was invoked,
\* capture had returned at least one artifact, the upload had returned, the
\* skip-comment input is not 'true' and the event is pull_request, and its
\* argument is the list the upload returned; if all of that holds and the
\* run is past that point, it was invoked.
C20_CommentCondition ==
    /\ Cardinality({ i \in 1..Len(run.calls) : run.calls[i] = "postComment" }) <= 1
    /\ Invoked("postComment") =>
          /\ run.captured >= 1
          /\ UploadReturned
          /\ run.skipCommentInput # "true"
          /\ run.eventName = "pull_request"
          /\ run.commentArg = run.uploadedUrls
          /\ Len(run.commentArg) = run.captured
          /\ run.calls[Len(run.calls)] = "postComment"
    /\ ( /\ PastComment
         /\ run.captured >= 1
         /\ run.skipCommentInput # "true"
         /\ run.eventName = "pull_request" ) => Invoked("postComment")

C20_Witness ==
    /\ Invoked("postComment")
    /\ run.pc = "returned"
    /\ Len(run.commentArg) = MaxTargets
    /\ run.skipCommentInput = "false"
    /\ run.failed = ""

\* a step of run() has raised and the catch block has run
ErrorHandled == run.thrown # NoThrow /\ run.pc # "catch"

\* C21: with the fail-on-error input different from 'true' the run is never
\* marked failed and never exits with code 1; with the input 'true', once
\* the error of any step (configuration, installation, capture, upload,
\* comment) was handled the run is marked failed with that error's message
\* and has exited with code 1.
C21_FailOnErrorPolicy ==
    /\ run.failOnErrorInput # "true" =>
          /\ run.failed = ""
          /\ run.exitCode # 1
          /\ run.pc # "exited"
          /\ ErrorHandled => (run.pc = "returned" /\ run.warned)
    /\ (run.failOnErrorInput = "true" /\ ErrorHandled) =>
          /\ run.pc = "exited"
          /\ run.failed = ErrorMessage(run.thrown)
          /\ run.failed # ""
          /\ run.exitCode = 1

C21_Witness ==
    /\ run.failOnErrorInput = ""
    /\ ErrorHandled
    /\ run.thrown \in CommentErrors
    /\ Invoked("postComment")
    /\ run.pc = "returned"
    /\ run.warned

(***************************************************************************)
(* Cancellation: the signal handlers of index.ts while a capture runs      *)
(***************************************************************************)
\* the capture is under way: the process has neither left
\* captureScreenshots nor exited
Capturing == cpc \in {"mkdir", "engine", "target", "pair", "closing"}

\* what the process was doing when the signal arrived
Moment == [cpc |-> cpc, stage |-> stage, openBrowsers |-> openBrowsers,
           openContexts |-> openContexts, screenshots |-> screenshots]

\* mutant: the handler closes the open browsers before it exits
SigintAfterCleanup ==
    /\ Capturing
    /\ proc' = [signal |-> "SIGINT", exitCode |-> 130, at |-> Moment]
    /\ cpc' = "exited"
    /\ openBrowsers' = {}
    /\ openContexts' = {}
    /\ UNCHANGED <<browserList, targets, bi, ti, stage, si, sub, screenshots, cur, log>>
    /\ UNCHANGED <<upVars, runVars, cmtVars, fsVars, confVars, loadingVars>>

\* process.on('SIGINT'): log, _shouldExit = true, process.exit(130)
Sigint ==
    /\ Capturing
    /\ proc' = [signal |-> "SIGINT", exitCode |-> 130, at |-> Moment]
    /\ cpc' = "exited"
    /\ UNCHANGED <<browserList, targets, bi, ti, stage, si, sub, screenshots,
                   openBrowsers, openContexts, cur, log>>
    /\ UNCHANGED <<upVars, runVars, cmtVars, fsVars, confVars, loadingVars>>

\* process.on('SIGTERM'): log, _shouldExit = true, process.exit(143)
Sigterm ==
    /\ Capturing
    /\ proc' = [signal |-> "SIGTERM", exitCode |-> 143, at |-> Moment]
    /\ cpc' = "exited"
    /\ UNCHANGED <<browserList, targets, bi, ti, stage, si, sub, screenshots,
                   openBrowsers, openContexts, cur, log>>
    /\ UNCHANGED <<upVars, runVars, cmtVars, fsVars, confVars, loadingVars>>

NextSignal ==
    \/ Mkdir
    \/ MkdirFail
    \/ SkipUnknown
    \/ Launch
    \/ LaunchFail
    \/ Return
    \/ BeginPair
    \/ EndTargets
    \/ CloseBrowser
    \/ CloseBrowserFail
    \/ StageOk
    \/ StageFail
    \/ WaitForSelector
    \/ WaitForTimeout
    \/ StepOk
    \/ StepFail
    \/ ReturnScreenshot
    \/ Sigint
    \/ Sigterm

SpecSignal == InitCapture /\ [][NextSignal]_vars

\* C22: a delivered SIGINT has ended the process with exit code 130 and a
\* delivered SIGTERM with 143; the process ends where the signal met it:
\* the step in progress is not finished, no artifact is added and close()
\* is called on no browser or context that was open at that moment.
C22_Cancellation ==
    /\ proc.signal = "none" => (proc.exitCode = -1 /\ cpc # "exited")
    /\ proc.signal = "SIGINT" => (proc.exitCode = 130 /\ cpc = "exited")
    /\ proc.signal = "SIGTERM" => (proc.exitCode = 143 /\ cpc = "exited")
    /\ cpc = "exited" =>
          /\ proc.signal \in {"SIGINT", "SIGTERM"}
          /\ stage = proc.at.stage
          /\ screenshots = proc.at.screenshots
          /\ openBrowsers = proc.at.openBrowsers
          /\ openContexts = proc.at.openContexts

C22_Witness ==
    /\ cpc = "exited"
    /\ proc.signal = "SIGINT"
    /\ proc.exitCode = 130
    /\ proc.at.cpc = "pair"
    /\ stage = "goto"
    /\ openBrowsers # {}
    /\ openContexts # {}

(***************************************************************************)
(* Claims about the inputs of run()                                        *)
(***************************************************************************)
\* the commands run() has executed through exec.exec
Executed(command) == \E i \in 1..Len(run.calls) : run.calls[i] = command

\* C23: when the skip-playwright-install input is 'true', run() executes no
\* availability check and no installation command, even with GITHUB_ACTIONS
\* set and LOCAL_TEST unset.
C23_SkipPlaywrightInstall ==
    IsTrue(run.skipPlaywrightInstallInput) =>
        /\ \A c \in AvailabilityCommands : ~Executed(c)
        /\ \A i \in 1..Len(InstallCommands) : ~Executed(InstallCommands[i])

\* the input is 'true' in the install environment and run() is past the block
C23_Witness ==
    /\ IsTrue(run.skipPlaywrightInstallInput)
    /\ InstallEnv
    /\ run.pc \notin {"start", "install"}
    /\ run.thrown \notin ConfigErrors

\* C30: the branch uploadScreenshots writes to equals output.branch of the
\* effective configuration of the run: the base configuration's output.branch,
\* replaced by the branch input only when that input is non-empty.
C30_UploadBranch ==
    Executed("uploadScreenshots") => run.uploadBranch = run.config.output.branch

\* the upload was called in a run whose branch input is empty and whose
\* configuration names a branch
C30_Witness ==
    /\ Executed("uploadScreenshots")
    /\ run.branchInput = ""
    /\ run.config.output.branch = "screens"

(***************************************************************************)
(* Claims about failures of an engine and about browsing contexts          *)
(***************************************************************************)
\* an engine was worked on: its identifier was looked up, launched or closed
EngineProcessed == \E i \in 1..Len(log) : log[i].ev \in {"skip", "launch", "throw", "close"}

\* C28: captureScreenshots never aborts the run: whatever fails while an
\* engine is processed (launch, a target, close), it returns normally with the
\* artifacts of every pair that succeeded, so the artifacts of earlier engines
\* are not lost when a later engine cannot be launched or closed.
C28_NeverAborts ==
    /\ (cpc = "thrown") => ~EngineProcessed
    /\ (cpc = "returned") =>
          /\ Len(screenshots) = Len(OkEnds)
          /\ \A k \in 1..Len(OkEnds) :
                /\ screenshots[k].name = targets[OkEnds[k].t].name
                /\ screenshots[k].browser = browserList[OkEnds[k].b]

\* an engine produced an artifact and a later engine was reached
C28_Witness ==
    /\ bi >= 2
    /\ cpc \in {"returned", "thrown"}
    /\ Len(screenshots) >= 1
    /\ \E i \in 1..Len(log) : log[i].b = 2 /\ log[i].ev \in {"throw", "close"} /\ ~log[i].ok

\* captureScreenshot is not running: it has returned for every pair begun
BetweenPairs == cpc # "pair"

\* C29: every context opened for a pair has been closed by the time
\* captureScreenshot returns for that pair, on the success path and on every
\* failure path, so at most one context is open per browser at any time.
C29_ContextsClosed ==
    /\ BetweenPairs => openContexts = {}
    /\ \A b \in 1..Len(browserList) :
          Cardinality({ c \in openContexts : c[1] = b }) <= 1

\* a pair failed after its context was opened, and captureScreenshot returned
C29_Witness ==
    /\ BetweenPairs
    /\ cur.t # 0
    /\ cur.failedAt \in {"goto", "screenshot"}
    /\ "newContext" \in { cur.ran[i] : i \in 1..Len(cur.ran) }

(***************************************************************************)
(* The configuration loader (config-loader.ts): values of the parsed YAML  *)
(***************************************************************************)
\* a JavaScript value: its type and its content
Value(type, num, str) == [type |-> type, num |-> num, str |-> str]

Undefined == Value("undefined", 0, "")
Null == Value("null", 0, "")
Num(n) == Value("number", n, "")
Str(text) == Value("string", 0, text)
Bool(b) == Value("boolean", IF b THEN 1 ELSE 0, "")

\* the truthiness JavaScript gives a value in !v, v && ..., v || ...
ToBoolean(v) ==
    CASE v.type \in {"undefined", "null"} -> FALSE
      [] v.type = "number" -> v.num # 0
      [] v.type = "string" -> v.str # ""
      [] v.type = "boolean" -> v.num = 1
      [] OTHER -> TRUE

\* a ?? b
Nullish(v) == v.type \in {"undefined", "null"}

\* a viewport as written in the file: nothing, a preset name (a string, as the
\* sequence of its characters) or an object; deviceScaleFactor 0 is undefined
RawViewport(type, chars, w, h, d) ==
    [type |-> type, chars |-> chars, width |-> w, height |-> h, deviceScaleFactor |-> d]

NoViewport == RawViewport("undefined", <<>>, 0, 0, 0)
Preset(chars) == RawViewport("string", chars, 0, 0, 0)
ViewportObject(w, h, d) == RawViewport("object", <<>>, w, h, d)

\* a Viewport of types.ts
Viewport(w, h, d) == [width |-> w, height |-> h, deviceScaleFactor |-> d]

UpperCase == <<"A", "B", "C", "D", "E", "F", "G", "H", "I", "J", "K", "L", "M",
               "N", "O", "P", "Q", "R", "S", "T", "U", "V", "W", "X", "Y", "Z">>
LowerCase == <<"a", "b", "c", "d", "e", "f", "g", "h", "i", "j", "k", "l", "m",
               "n", "o", "p", "q", "r", "s", "t", "u", "v", "w", "x", "y", "z">>

\* String.prototype.toLowerCase, character by character
ToLowerCase(chars) ==
    [i \in 1..Len(chars) |->
        IF \E k \in 1..Len(UpperCase) : UpperCase[k] = chars[i]
        THEN LowerCase[CHOOSE k \in 1..Len(UpperCase) : UpperCase[k] = chars[i]]
        ELSE chars[i]]

\* the result of a function that returns a value or throws an Error
Returned(value) == [ok |-> TRUE, value |-> value, error |-> ""]
Threw(value, message) == [ok |-> FALSE, value |-> value, error |-> message]

UnknownPresetMessage == "Unknown viewport preset"

\* the presets of the switch statement
PresetTable(chars) ==
    CASE chars = <<"d", "e", "s", "k", "t", "o", "p">> -> Returned(Viewport(1440, 900, 0))
      [] chars = <<"l", "a", "p", "t", "o", "p">> -> Returned(Viewport(1366, 768, 0))
      [] chars = <<"t", "a", "b", "l", "e", "t">> -> Returned(Viewport(768, 1024, 0))
      [] chars = <<"m", "o", "b", "i", "l", "e">> -> Returned(Viewport(390, 844, 3))
      [] OTHER -> Threw(Viewport(0, 0, 0), UnknownPresetMessage)

\* mutant: the preset is compared as written
normalizeViewportCaseSensitive(viewport) ==
    IF viewport.type = "undefined" \/ (viewport.type = "string" /\ viewport.chars = <<>>)
    THEN Returned(Viewport(1440, 900, 0))
    ELSE IF viewport.type = "string"
    THEN PresetTable(viewport.chars)
    ELSE Returned(Viewport(viewport.width, viewport.height, viewport.deviceScaleFactor))

\* normalizeViewport: !viewport, then the switch on viewport.toLowerCase(),
\* then the object's three fields
normalizeViewport(viewport) ==
    IF viewport.type = "undefined" \/ (viewport.type = "string" /\ viewport.chars = <<>>)
    THEN Returned(Viewport(1440, 900, 0))
    ELSE IF viewport.type = "string"
    THEN PresetTable(ToLowerCase(viewport.chars))
    ELSE Returned(Viewport(viewport.width, viewport.height, viewport.deviceScaleFactor))

\* the options captureScreenshot passes to browser.newContext
ContextOptions(viewport) ==
    [viewport |-> viewport,
     deviceScaleFactor |-> IF viewport.deviceScaleFactor # 0
                           THEN viewport.deviceScaleFactor ELSE 2]

(***************************************************************************)
(* validateConfig and normalizeConfig                                      *)
(***************************************************************************)
\* an element of the screenshots array as parsed: an object with the fields
\* the loader reads, or something that is no object (type "null", "string")
RawScreenshot(type, name, url, path, viewport, waitFor, wait_for, wait) ==
    [type |-> type, name |-> name, url |-> url, path |-> path, viewport |-> viewport,
     waitFor |-> waitFor, wait_for |-> wait_for, wait |-> wait]

\* the screenshots key: absent, an array, or another value
NoScreenshotsKey == [type |-> "undefined", items |-> <<>>]
ScreenshotsArray(items) == [type |-> "array", items |-> items]
ScreenshotsString == [type |-> "string", items |-> <<>>]

\* the output key: absent, or an object with branch and comment.group_by
NoOutput == [present |-> FALSE, branch |-> "", group_by |-> ""]
Output(branch, group_by) == [present |-> TRUE, branch |-> branch, group_by |-> group_by]

\* the skip key: absent, or an object with label, wipTitles and wip_titles
NoSkip == [present |-> FALSE, label |-> Undefined, wipTitles |-> Undefined,
           wip_titles |-> Undefined]
Skip(label, wipTitles, wip_titles) ==
    [present |-> TRUE, label |-> label, wipTitles |-> wipTitles, wip_titles |-> wip_titles]

\* what yaml.parse returned: an object (or an array, an object without these
\* keys) with the keys the loader reads, or a value that is no object
RawConfig(type, version, shots, output, skip) ==
    [type |-> type, version |-> version, screenshots |-> shots, output |-> output,
     skip |-> skip]

NotAnObject(type) == RawConfig(type, Undefined, NoScreenshotsKey, NoOutput, NoSkip)

ObjectMessage == "Config must be an object"
VersionMessage == "Unsupported config version"
ScreenshotsMessage == "Config must include at least one screenshot"
ScreenshotObjectMessage == "Each screenshot must be an object"
NameMessage == "Each screenshot must have a name"
UrlMessage == "Screenshot must have either url or path"

\* the three tests of the for loop on one screenshot: the message thrown, or ""
ScreenshotError(screenshot) ==
    IF screenshot.type # "object" THEN ScreenshotObjectMessage
    ELSE IF ~ToBoolean(screenshot.name) THEN NameMessage
    ELSE IF ~ToBoolean(screenshot.url) /\ ~ToBoolean(screenshot.path) THEN UrlMessage
    ELSE ""

\* the least element of a non-empty set of indices
Least(S) == CHOOSE i \in S : \A j \in S : i <= j

\* validateConfig: the tests in the order of the code; the first that fails throws
validateConfig(cfg) ==
    IF cfg.type \notin {"object", "array"} THEN Threw(cfg, ObjectMessage)
    ELSE IF ToBoolean(cfg.version) /\ cfg.version # Num(1)
    THEN Threw(cfg, VersionMessage)
    ELSE IF cfg.screenshots.type # "array" \/ Len(cfg.screenshots.items) = 0
    THEN Threw(cfg, ScreenshotsMessage)
    ELSE LET bad == { i \in 1..Len(cfg.screenshots.items) :
                        ScreenshotError(cfg.screenshots.items[i]) # "" }
         IN IF bad = {} THEN Returned(cfg)
            ELSE Threw(cfg, ScreenshotError(cfg.screenshots.items[Least(bad)]))

\* DEFAULT_CONFIG.output
DefaultOutput == Output(DefaultOutputBranch, "viewport")

LocalhostUrl == "http://localhost:3000"

\* a || b on values
OrElse(a, b) == IF ToBoolean(a) THEN a ELSE b

\* mutant: only the camelCase key waitFor is read
NormalizeScreenshotNoAlias(screenshot) ==
    [name |-> screenshot.name.str,
     url |-> IF ToBoolean(screenshot.url) THEN screenshot.url.str
             ELSE LocalhostUrl \o OrElse(screenshot.path, Str("/")).str,
     viewport |-> normalizeViewport(screenshot.viewport).value,
     waitFor |-> screenshot.waitFor,
     wait |-> IF ToBoolean(screenshot.wait) THEN screenshot.wait ELSE Undefined]

\* the callback of config.screenshots.map: the ScreenshotConfig of one entry
NormalizeScreenshot(screenshot) ==
    [name |-> screenshot.name.str,
     url |-> IF ToBoolean(screenshot.url) THEN screenshot.url.str
             ELSE LocalhostUrl \o OrElse(screenshot.path, Str("/")).str,
     viewport |-> normalizeViewport(screenshot.viewport).value,
     waitFor |-> OrElse(screenshot.waitFor, screenshot.wait_for),
     wait |-> IF ToBoolean(screenshot.wait) THEN screenshot.wait ELSE Undefined]

\* config.skip.wipTitles ?? config.skip.wip_titles ?? DEFAULT_CONFIG.skip.wipTitles
WipTitles(skip) ==
    IF ~Nullish(skip.wipTitles) THEN skip.wipTitles
    ELSE IF ~Nullish(skip.wip_titles) THEN skip.wip_titles
    ELSE Bool(TRUE)

\* the Config that stands for "no result"
NoResult == [version |-> 0, screenshots |-> <<>>, output |-> NoOutput,
             skip |-> [label |-> Undefined, wipTitles |-> Undefined]]

\* normalizeConfig: version, output and skip with their defaults, then the map
\* over the screenshots, in which normalizeViewport may throw
normalizeConfig(cfg) ==
    LET items == cfg.screenshots.items
        bad == { i \in 1..Len(items) : ~normalizeViewport(items[i].viewport).ok }
    IN IF bad # {}
       THEN Threw(NoResult, normalizeViewport(items[Least(bad)].viewport).error)
       ELSE Returned(
              [version |-> IF ToBoolean(cfg.version) THEN cfg.version.num ELSE 1,
               screenshots |-> [i \in 1..Len(items) |-> NormalizeScreenshot(items[i])],
               output |-> IF cfg.output.present THEN cfg.output ELSE DefaultOutput,
               skip |-> IF cfg.skip.present
                        THEN [label |-> cfg.skip.label, wipTitles |-> WipTitles(cfg.skip)]
                        ELSE [label |-> Undefined, wipTitles |-> Bool(TRUE)]])

(***************************************************************************)
(* loadConfig: the inputs that are enumerated and the steps                *)
(***************************************************************************)
\* a screenshot object with the given name, url, path and viewport
Shot(name, url, path, viewport) ==
    RawScreenshot("object", name, url, path, viewport, Undefined, Undefined, Undefined)

HomeUrl == Str("http://localhost:3000/home")

\* the screenshots a file may list: well-formed ones (two of them with the
\* name home), every viewport form, both spellings of waitFor, and the
\* malformed ones that each rule of validateConfig is about
RawScreenshots ==
    { Shot(Str("home"), HomeUrl, Undefined, NoViewport),
      Shot(Str("about"), Undefined, Str("/about"), Preset(<<"M", "O", "B", "I", "L", "E">>)),
      RawScreenshot("object", Str("home"), Str(""), Str("/home"),
                    ViewportObject(1920, 1080, 0), Str(".app"), Str(".loaded"), Num(500)),
      RawScreenshot("object", Str("docs"), HomeUrl, Undefined,
                    ViewportObject(800, 600, 1), Undefined, Str(".loaded"), Num(0)),
      Shot(Str("desk"), HomeUrl, Str("/ignored"), Preset(<<"D", "e", "s", "k", "t", "o", "p">>)),
      Shot(Str("lap"), HomeUrl, Undefined, Preset(<<"l", "a", "p", "t", "o", "p">>)),
      Shot(Str("tab"), HomeUrl, Undefined, Preset(<<"t", "a", "b", "l", "e", "t">>)),
      Shot(Str("blank"), HomeUrl, Undefined, Preset(<<>>)),
      Shot(Str("huge"), HomeUrl, Undefined, Preset(<<"h", "u", "g", "e">>)),
      Shot(Str("tv"), Undefined, Str("/tv"), Preset(<<"m", "o", "b", "i", "l", "e", "s">>)),
      RawScreenshot("null", Undefined, Undefined, Undefined, NoViewport,
                    Undefined, Undefined, Undefined),
      RawScreenshot("string", Undefined, Undefined, Undefined, NoViewport,
                    Undefined, Undefined, Undefined),
      Shot(Undefined, HomeUrl, Undefined, NoViewport),
      Shot(Str(""), Undefined, Undefined, NoViewport),
      Shot(Str("home"), Undefined, Undefined, NoViewport),
      Shot(Str("home"), Str(""), Null, Preset(<<"h", "u", "g", "e">>)) }

\* the values of the screenshots key
RawScreenshotLists ==
    { NoScreenshotsKey, ScreenshotsString, ScreenshotsArray(<<>>) }
      \cup { ScreenshotsArray(items) : items \in SeqsUpTo(RawScreenshots, MaxTargets) }

\* the values of the version key: absent, null, and numbers
RawVersions == { Undefined, Null, Num(0), Num(1), Num(2), Str("1") }

\* the values of the skip key
RawSkips ==
    { NoSkip,
      Skip(Undefined, Undefined, Undefined),
      Skip(Str("skip-screenshots"), Bool(FALSE), Undefined),
      Skip(Undefined, Undefined, Bool(FALSE)),
      Skip(Undefined, Null, Bool(FALSE)),
      Skip(Undefined, Bool(TRUE), Bool(FALSE)) }

\* the values of the output key
RawOutputs == { NoOutput, Output("screens", "browser") }

OneGoodList == ScreenshotsArray(<<Shot(Str("home"), HomeUrl, Undefined, NoViewport)>>)

\* the parsed files that are enumerated: every version with every list of
\* screenshots, every output and skip with a well-formed list, and the values
\* that are no object
RawConfigs ==
    { RawConfig("object", v, l, NoOutput, NoSkip) : v \in RawVersions, l \in RawScreenshotLists }
      \cup { RawConfig("object", Num(1), OneGoodList, o, sk) : o \in RawOutputs, sk \in RawSkips }
      \cup { NotAnObject(t) : t \in {"null", "string", "number", "array"} }

FileNotFoundMessage == "Config file not found"
FailedToLoad(message) == "Failed to load config: " \o message
ReadErrors == { "Permission denied", "bad indentation of a mapping entry" }

InitLoad ==
    /\ conf \in { [pc |-> "read", raw |-> raw, thrown |-> "", error |-> "",
                   failedIn |-> "", config |-> NoResult] : raw \in RawConfigs }
    /\ CaptureIdle
    /\ UploadIdle
    /\ RunIdle
    /\ CommentsIdle
    /\ FsIdle
    /\ ProcIdle
    /\ LoadingIdle

\* fs.readFile resolves and yaml.parse returns conf.raw
ReadFile ==
    /\ conf.pc = "read"
    /\ conf' = [conf EXCEPT !.pc = "parsed"]
    /\ UNCHANGED notConf

\* fs.readFile rejects with code ENOENT
ReadFileMissing ==
    /\ conf.pc = "read"
    /\ conf' = [conf EXCEPT !.pc = "failed", !.failedIn = "readFile",
                            !.thrown = "ENOENT", !.error = FileNotFoundMessage]
    /\ UNCHANGED notConf

\* fs.readFile rejects with another error, or yaml.parse throws
ReadFileError ==
    /\ conf.pc = "read"
    /\ \E e \in ReadErrors :
          conf' = [conf EXCEPT !.pc = "failed", !.failedIn = "readFile",
                               !.thrown = e, !.error = FailedToLoad(e)]
    /\ UNCHANGED notConf

\* validated = validateConfig(config) returns
ValidateConfig ==
    /\ conf.pc = "parsed"
    /\ validateConfig(conf.raw).ok
    /\ conf' = [conf EXCEPT !.pc = "validated"]
    /\ UNCHANGED notConf

\* validateConfig throws: the catch block of loadConfig wraps the message
ValidateConfigThrows ==
    /\ conf.pc = "parsed"
    /\ ~validateConfig(conf.raw).ok
    /\ conf' = [conf EXCEPT !.pc = "failed", !.failedIn = "validateConfig",
                            !.thrown = validateConfig(conf.raw).error,
                            !.error = FailedToLoad(validateConfig(conf.raw).error)]
    /\ UNCHANGED notConf

\* normalized = normalizeConfig(validated) returns; loadConfig returns it
NormalizeConfig ==
    /\ conf.pc = "validated"
    /\ normalizeConfig(conf.raw).ok
    /\ conf' = [conf EXCEPT !.pc = "normalized", !.config = normalizeConfig(conf.raw).value]
    /\ UNCHANGED notConf

\* normalizeViewport throws inside the map of normalizeConfig
NormalizeConfigThrows ==
    /\ conf.pc = "validated"
    /\ ~normalizeConfig(conf.raw).ok
    /\ conf' = [conf EXCEPT !.pc = "failed", !.failedIn = "normalizeConfig",
                            !.thrown = normalizeConfig(conf.raw).error,
                            !.error = FailedToLoad(normalizeConfig(conf.raw).error)]
    /\ UNCHANGED notConf

NextLoad ==
    \/ ReadFile
    \/ ReadFileMissing
    \/ ReadFileError
    \/ ValidateConfig
    \/ ValidateConfigThrows
    \/ NormalizeConfig
    \/ NormalizeConfigThrows

SpecLoad == InitLoad /\ [][NextLoad]_vars

(***************************************************************************)
(* Claims about the configuration loader                                   *)
(***************************************************************************)
\* validateConfig was called on conf.raw
ValidationRan ==
    \/ conf.pc \in {"validated", "normalized"}
    \/ conf.pc = "failed" /\ conf.failedIn \in {"validateConfig", "normalizeConfig"}

\* validateConfig returned
Accepted ==
    \/ conf.pc \in {"validated", "normalized"}
    \/ conf.pc = "failed" /\ conf.failedIn = "normalizeConfig"

\* a key holds something: a non-empty string
Given(v) == v.type = "string" /\ v.str # ""

\* the key is not there (or holds YAML's null)
Absent(v) == v \in {Undefined, Null}

\* the rule a screenshot violates first, as the claim lists them, or ""
FirstScreenshotRule(screenshot) ==
    IF screenshot.type # "object" THEN ScreenshotObjectMessage
    ELSE IF ~Given(screenshot.name) THEN NameMessage
    ELSE IF ~Given(screenshot.url) /\ ~Given(screenshot.path) THEN UrlMessage
    ELSE ""

\* the rule a value violates first, in the order the claim gives, or ""
FirstRule(cfg) ==
    IF cfg.type \notin {"object", "array"} THEN ObjectMessage
    ELSE IF ~(Absent(cfg.version) \/ cfg.version = Num(1)) THEN VersionMessage
    ELSE IF cfg.screenshots.type # "array" \/ cfg.screenshots.items = <<>>
    THEN ScreenshotsMessage
    ELSE LET items == cfg.screenshots.items
             bad == { i \in 1..Len(items) : FirstScreenshotRule(items[i]) # "" }
         IN IF bad = {} THEN "" ELSE FirstScreenshotRule(items[Least(bad)])

\* C24: validateConfig accepts a value exactly when it is an object whose
\* version is absent or 1, whose screenshots is a non-empty array and whose
\* every screenshot is an object with a name and with a url or a path;
\* otherwise it throws, reporting the first violated rule in the order: not an
\* object, unsupported version, no screenshots, then per screenshot in list
\* order (not an object, missing name, missing url and path).
C24_ValidateConfig ==
    ValidationRan =>
        IF FirstRule(conf.raw) = ""
        THEN Accepted
        ELSE /\ conf.pc = "failed"
             /\ conf.failedIn = "validateConfig"
             /\ conf.thrown = FirstRule(conf.raw)

\* a list whose second screenshot breaks a rule was rejected with that rule,
\* after a first screenshot that breaks none
C24_Witness ==
    /\ conf.pc = "failed"
    /\ conf.failedIn = "validateConfig"
    /\ conf.thrown = UrlMessage
    /\ Len(conf.raw.screenshots.items) = 2
    /\ FirstScreenshotRule(conf.raw.screenshots.items[1]) = ""

\* the viewport the claims give for a raw viewport that is absent (or the
\* empty string), a preset in any case, or an object
ExpectedViewport(viewport) ==
    IF viewport.type = "undefined" \/ viewport = Preset(<<>>) THEN Viewport(1440, 900, 0)
    ELSE IF viewport.type = "object"
    THEN Viewport(viewport.width, viewport.height, viewport.deviceScaleFactor)
    ELSE IF viewport \in { Preset(<<"D", "e", "s", "k", "t", "o", "p">>) }
    THEN Viewport(1440, 900, 0)
    ELSE IF viewport \in { Preset(<<"l", "a", "p", "t", "o", "p">>) }
    THEN Viewport(1366, 768, 0)
    ELSE IF viewport \in { Preset(<<"t", "a", "b", "l", "e", "t">>) }
    THEN Viewport(768, 1024, 0)
    ELSE IF viewport \in { Preset(<<"M", "O", "B", "I", "L", "E">>) }
    THEN Viewport(390, 844, 3)
    ELSE Viewport(0, 0, 0)

\* a preset string that is none of the four presets in any case
OtherPreset(viewport) ==
    /\ viewport.type = "string"
    /\ viewport.chars # <<>>
    /\ ExpectedViewport(viewport) = Viewport(0, 0, 0)

RawItems == conf.raw.screenshots.items

\* what the claim says of a normalized config
Canonical ==
    /\ Len(conf.config.screenshots) = Len(RawItems)
    /\ \A i \in 1..Len(RawItems) :
          LET raw == RawItems[i]
              shot == conf.config.screenshots[i]
          IN /\ shot.name = raw.name.str
             /\ shot.url = IF Given(raw.url) THEN raw.url.str
                           ELSE LocalhostUrl \o raw.path.str
             /\ shot.viewport = ExpectedViewport(raw.viewport)
             /\ shot.waitFor = IF Given(raw.waitFor) THEN raw.waitFor ELSE raw.wait_for
    /\ ~conf.raw.output.present =>
          /\ conf.config.output.branch = "gh-screenshots"
          /\ conf.config.output.group_by = "viewport"
    /\ conf.raw.output.present => conf.config.output = conf.raw.output
    /\ (Absent(conf.raw.skip.wipTitles) /\ Absent(conf.raw.skip.wip_titles)) =>
          conf.config.skip.wipTitles = Bool(TRUE)
    /\ ~Absent(conf.raw.skip.wipTitles) =>
          conf.config.skip.wipTitles = conf.raw.skip.wipTitles
    /\ (Absent(conf.raw.skip.wipTitles) /\ ~Absent(conf.raw.skip.wip_titles)) =>
          conf.config.skip.wipTitles = conf.raw.skip.wip_titles

ConfigOf(ts) ==
    RawConfig("object", Num(1),
              ScreenshotsArray([i \in 1..Len(ts) |->
                                  Shot(Str(ts[i].name), HomeUrl, Undefined, NoViewport)]),
              NoOutput, NoSkip)

\* two artifacts of one engine whose targets have the same name
Collide(k, l) ==
    /\ k < l
    /\ OkEnds[k].b = OkEnds[l].b
    /\ targets[OkEnds[k].t].name = targets[OkEnds[l].t].name

\* C27: duplicate target names follow last-write-wins: the config passes
\* validation and normalization, both targets are captured on each engine to
\* the same file <name>-<engine>.png, the later capture overwrites the earlier
\* file, and the run has two artifacts of that engine with the same local path.
C27_LastWriteWins ==
    /\ validateConfig(ConfigOf(targets)).ok
    /\ normalizeConfig(ConfigOf(targets)).ok
    /\ \A i \in 1..Len(targets) :
          normalizeConfig(ConfigOf(targets)).value.screenshots[i].name = targets[i].name
    /\ \A k, l \in 1..Len(OkEnds) :
          Collide(k, l) =>
             LET filepath == Filepath(targets[OkEnds[l].t].name, browserList[OkEnds[l].b])
             IN /\ screenshots[k].path = filepath
                /\ screenshots[l].path = filepath
                /\ screenshots[k].browser = screenshots[l].browser
                /\ filepath \in DOMAIN files
                /\ \/ files[filepath] = <<OkEnds[l].b, OkEnds[l].t>>
                   \/ Lex(OkEnds[l].b, OkEnds[l].t, files[filepath][1], files[filepath][2])

\* two targets of one name were both captured on the only engine
C27_Witness ==
    /\ cpc = "returned"
    /\ Len(browserList) = 1
    /\ Len(targets) = 2
    /\ targets[1].name = targets[2].name
    /\ Len(screenshots) = 2
    /\ screenshots[1].path = screenshots[2].path
    /\ files[screenshots[1].path] = <<1, 2>>

(***************************************************************************)
(* cleanupScreenshots (cleanup.ts): the comments of the pull request are   *)
(* deleted, then the content branch                                        *)
(***************************************************************************)
\* the content branch as two pull requests left it: the files of pr-7 and,
\* laid over them, the files of pr-8
SharedCommit ==
    [tree |-> EarlierCommit.tree
              @@ (<<PrDir(8), "t1", "home-chromium.png">> :>
                      FileBlob(CapturedScreenshot([name |-> "home"], "chromium")))
              @@ (<<PrDir(8), "t1", "README.md">> :> Blob("readme", <<PrDir(8), "t1">>))
              @@ (LatestPath(8) :> LatestBlob("t1")),
     parents |-> <<2>>, message |-> <<PrDir(8), "t1">>]

ToolComment(id, body) == [id |-> id, by |-> "tool", body |-> body]
HumanCommentOf(id, body) == [id |-> id, by |-> "human", body |-> body]

\* the comments of the pull request when the cleanup starts
CleanupComments ==
    { <<>>,
      <<HumanCommentOf(1, <<"LGTM">>)>>,
      <<ToolComment(1, <<Marker, "home">>), HumanCommentOf(2, <<"LGTM">>)>>,
      <<HumanCommentOf(1, <<"LGTM">>), ToolComment(2, <<Marker, "home">>),
        HumanCommentOf(3, <<"old run said", Heading>>)>>,
      <<ToolComment(1, <<Heading, "home">>), HumanCommentOf(2, <<"LGTM">>),
        ToolComment(3, <<Marker, "home", "about">>)>> }

\* context.payload.pull_request?.number; 0 when the event has no pull request
CleanupPrNumbers == {0} \cup PrNumbers

InitCleanup ==
    /\ comments \in CleanupComments
    /\ posted = <<>>
    /\ \/ /\ commits = <<InitialCommit>>
          /\ refs = [b \in Branches |-> IF b = DefaultBranch THEN 1 ELSE 0]
       \/ /\ commits = <<InitialCommit, EarlierCommit, SharedCommit>>
          /\ refs = [b \in Branches |-> IF b = DefaultBranch THEN 1 ELSE 3]
    /\ clock = 0
    /\ order = <<>>
    /\ up = <<>>
    /\ \E n \in CleanupPrNumbers :
          cleanup = [pc |-> "start", prNumber |-> n, branch |-> ContentBranch,
                     ids |-> <<>>, deleted |-> 0, humans |-> 0,
                     calls |-> <<>>, errors |-> <<>>, lookup |-> "none",
                     before |-> [comments |-> comments, tree |-> TipTree]]
    /\ CaptureIdle
    /\ RunIdle
    /\ FsIdle
    /\ ProcIdle
    /\ ConfIdle
    /\ LoadingIdle

notCleanup == <<capVars, runVars, fsVars, procVars, confVars, loadingVars, commits, clock, order, up, posted>>

\* no pull request number: a warning, and the function returns
NoPrNumber ==
    /\ cleanup.pc = "start"
    /\ cleanup.prNumber = 0
    /\ cleanup' = [cleanup EXCEPT !.pc = "returned"]
    /\ UNCHANGED <<comments, refs>>
    /\ UNCHANGED notCleanup

\* deleteScreenshotComments is entered
StartCleanup ==
    /\ cleanup.pc = "start"
    /\ cleanup.prNumber # 0
    /\ cleanup' = [cleanup EXCEPT !.pc = "idle"]
    /\ UNCHANGED <<comments, refs>>
    /\ UNCHANGED notCleanup

\* mutant: a 404 of the lookup is taken for a branch that exists
GetBranch404Found ==
    /\ cleanup.pc = "done"
    /\ refs[cleanup.branch] = 0
    /\ cleanup' = [cleanup EXCEPT !.pc = "found", !.lookup = "404",
                                  !.calls = Append(@, Api("getBranch", 0))]
    /\ UNCHANGED <<comments, refs>>
    /\ UNCHANGED notCleanup

\* deleteScreenshotBranch: repos.getBranch rejects with status 404, the
\* function returns
GetBranch404 ==
    /\ cleanup.pc = "done"
    /\ refs[cleanup.branch] = 0
    /\ cleanup' = [cleanup EXCEPT !.pc = "returned", !.lookup = "404",
                                  !.calls = Append(@, Api("getBranch", 0))]
    /\ UNCHANGED <<comments, refs>>
    /\ UNCHANGED notCleanup

\* repos.getBranch resolves
GetBranchFound ==
    /\ cleanup.pc = "done"
    /\ refs[cleanup.branch] # 0
    /\ cleanup' = [cleanup EXCEPT !.pc = "found", !.lookup = "found",
                                  !.calls = Append(@, Api("getBranch", 0))]
    /\ UNCHANGED <<comments, refs>>
    /\ UNCHANGED notCleanup

\* repos.getBranch rejects with another status: the error is thrown again,
\* caught by the function's own catch, logged and not thrown
GetBranchFail ==
    /\ cleanup.pc = "done"
    /\ cleanup' = [cleanup EXCEPT !.pc = "returned", !.lookup = "error",
                                  !.calls = Append(@, Api("getBranch", 0)),
                                  !.errors = Append(@, "getBranch")]
    /\ UNCHANGED <<comments, refs>>
    /\ UNCHANGED notCleanup

\* git.deleteRef of heads/<branch>: the branch is gone
DeleteRef ==
    /\ cleanup.pc = "found"
    /\ refs' = [refs EXCEPT ![cleanup.branch] = 0]
    /\ cleanup' = [cleanup EXCEPT !.pc = "returned",
                                  !.calls = Append(@, Api("deleteRef", 0))]
    /\ UNCHANGED comments
    /\ UNCHANGED notCleanup

\* git.deleteRef rejects: the error is logged and not thrown
DeleteRefFail ==
    /\ cleanup.pc = "found"
    /\ cleanup' = [cleanup EXCEPT !.pc = "returned",
                                  !.calls = Append(@, Api("deleteRef", 0)),
                                  !.errors = Append(@, "deleteRef")]
    /\ UNCHANGED <<comments, refs>>
    /\ UNCHANGED notCleanup

NextCleanup ==
    \/ NoPrNumber
    \/ StartCleanup
    \/ ListComments
    \/ ListCommentsFail
    \/ DeleteComment
    \/ DeleteCommentFail
    \/ DeleteDone
    \/ GetBranch404
    \/ GetBranchFound
    \/ GetBranchFail
    \/ DeleteRef
    \/ DeleteRefFail

SpecCleanup == InitCleanup /\ [][NextCleanup]_vars

\* the positions of the requests of one kind in the cleanup's call log
Requests(name) == { i \in 1..Len(cleanup.calls) : cleanup.calls[i].api = name }

\* the tree the content branch points at ("reachable from that branch")
Reachable(path) == path \in DOMAIN TipTree

\* C31: after cleanupScreenshots for pull request n has returned, every path
\* pr-<m>/... with m different from n that was on the content branch when
\* the cleanup started is still on the tree at the tip of that branch.
C31_OtherPrsKept ==
    (cleanup.pc = "returned" /\ cleanup.prNumber # 0) =>
        \A path \in DOMAIN cleanup.before.tree :
            (\E m \in PrNumbers \ {cleanup.prNumber} : path[1] = PrDir(m)) =>
                Reachable(path)

\* the cleanup of pull request 7 has deleted the ref, and the files that
\* pull request 8 published were on the branch
C31_Witness ==
    /\ cleanup.pc = "returned"
    /\ cleanup.prNumber = 7
    /\ Requests("deleteRef") # {}
    /\ cleanup.errors = <<>>
    /\ LatestPath(8) \in DOMAIN cleanup.before.tree

\* the requests of the comment phase and of the branch phase
CommentRequests == Requests("listComments") \cup Requests("deleteComment")
BranchRequests == Requests("getBranch") \cup Requests("deleteRef")

\* C35: with no pull request number the cleanup sends no request; otherwise
\* every request about comments precedes every request about the branch, a
\* cleanup that returned has looked the branch up whatever happened to the
\* comment requests, and no failure of either phase leaves the function as
\* an exception.
C35_PhasesIsolated ==
    /\ cleanup.prNumber = 0 => cleanup.calls = <<>>
    /\ \A i \in CommentRequests : \A j \in BranchRequests : i < j
    /\ (cleanup.pc = "returned" /\ cleanup.prNumber # 0) =>
          /\ Requests("listComments") # {}
          /\ Requests("getBranch") # {}
    /\ cleanup.pc # "thrown"
    /\ (cleanup.errors # <<>> /\ ~ENABLED NextCleanup) => cleanup.pc = "returned"

\* a deleteComment request was rejected and the branch was deleted after it
C35_Witness ==
    /\ cleanup.pc = "returned"
    /\ cleanup.errors = <<"deleteComment">>
    /\ Requests("deleteRef") # {}
    /\ refs[cleanup.branch] = 0

\* the body contains the hidden marker or the header
Tagged(comment) ==
    \/ \E i \in 1..Len(comment.body) : comment.body[i] = "<!-- auto-pr-screenshots -->"
    \/ \E i \in 1..Len(comment.body) : comment.body[i] = "**PR Screenshots**"

\* the comments that were on the pull request when the cleanup started
Before == { cleanup.before.comments[i] : i \in 1..Len(cleanup.before.comments) }
Present == { comments[i] : i \in 1..Len(comments) }

\* the comment phase is over and none of its requests was rejected
CommentPhaseClean ==
    /\ cleanup.pc \in {"done", "found", "returned"}
    /\ cleanup.prNumber # 0
    /\ \A k \in 1..Len(cleanup.errors) :
          cleanup.errors[k] \notin {"listComments", "deleteComment"}

\* C36: deleteScreenshotComments sends deleteComment only for listed comments
\* whose body contains the marker or the header; a comment that contains
\* neither stays on the pull request; and when no request of the phase was
\* rejected every listed comment that contains one of them is gone and was
\* the subject of exactly one deleteComment request.
C36_OnlyTaggedDeleted ==
    /\ \A i \in Requests("deleteComment") :
          \E c \in Before : c.id = cleanup.calls[i].id /\ Tagged(c)
    /\ \A c \in Before : ~Tagged(c) => c \in Present
    /\ CommentPhaseClean =>
          \A c \in Before : Tagged(c) =>
              /\ c \notin Present
              /\ Cardinality({ i \in Requests("deleteComment") :
                                  cleanup.calls[i].id = c.id }) = 1

\* two tagged comments were deleted and two untagged ones were listed
C36_Witness ==
    /\ CommentPhaseClean
    /\ cleanup.deleted = 2
    /\ Cardinality({ c \in Before : ~Tagged(c) }) >= 1
    /\ Cardinality({ c \in Before : Tagged(c) /\ c.by = "human" }) = 1
    /\ Len(comments) = 1

\* C37: a deleteRef request directly follows a getBranch request that
\* resolved; when the lookup reported 404 or failed otherwise no deleteRef
\* request is sent; a cleanup sends at most one deleteRef request.
C37_DeleteAfterLookup ==
    /\ \A j \in Requests("deleteRef") :
          /\ j > 1
          /\ cleanup.calls[j - 1].api = "getBranch"
          /\ cleanup.lookup = "found"
    /\ cleanup.lookup \in {"404", "error"} => Requests("deleteRef") = {}
    /\ Cardinality(Requests("deleteRef")) <= 1
    /\ Cardinality(Requests("getBranch")) <= 1

\* the lookup reported 404 and the cleanup returned without a deleteRef
C37_Witness ==
    /\ cleanup.pc = "returned"
    /\ cleanup.lookup = "404"
    /\ Requests("getBranch") # {}
    /\ Requests("deleteRef") = {}

(***************************************************************************)
(* The installation block of run()                                         *)
(***************************************************************************)
\* the positions of the installation commands among the calls of the run
InstallCalls ==
    { i \in 1..Len(run.calls) :
         \E k \in 1..Len(InstallCommands) : run.calls[i] = InstallCommands[k] }

FrameworkConfigItem(id, name, port, deps, devDeps, fileNames) ==
    [id |-> id, name |-> name, defaultPort |-> port, dependencies |-> deps,
     devDependencies |-> devDeps, files |-> fileNames,
     routes |-> <<[path |-> "/", name |-> <<"H", "o", "m", "e">>]>>]

\* the entries of FRAMEWORK_CONFIGS in the order Object.entries gives them;
\* a list the object does not have is the empty list
FRAMEWORK_CONFIGS ==
    << FrameworkConfigItem("next", "Next.js", 3000, <<"next">>, <<>>, <<>>),
       FrameworkConfigItem("nuxt", "Nuxt", 3000, <<"nuxt">>, <<>>, <<>>),
       FrameworkConfigItem("vite", "Vite", 5173, <<>>, <<"vite">>,
                           <<"vite.config.js", "vite.config.ts">>),
       FrameworkConfigItem("create-react-app", "Create React App", 3000,
                           <<"react-scripts">>, <<>>, <<>>),
       FrameworkConfigItem("vue-cli", "Vue CLI", 8080, <<>>, <<"@vue/cli-service">>, <<>>),
       FrameworkConfigItem("angular", "Angular", 4200, <<"@angular/core">>, <<>>,
                           <<"angular.json">>),
       FrameworkConfigItem("svelte-kit", "SvelteKit", 5173, <<"@sveltejs/kit">>, <<>>, <<>>),
       FrameworkConfigItem("gatsby", "Gatsby", 8000, <<"gatsby">>, <<>>, <<>>) >>

\* a script of package.json is a sequence of pieces: a text in which the
\* pattern finds nothing, "--port" with the character and the digits that
\* follow it, or "PORT=" with the digits that follow it (digits -1: none)
Text(t) == [piece |-> "text", sep |-> "", digits |-> -1, text |-> t]
PortFlag(sep, n) == [piece |-> "--port", sep |-> sep, digits |-> n, text |-> ""]
PortEnv(n) == [piece |-> "PORT=", sep |-> "", digits |-> n, text |-> ""]

\* the pieces /--port[= ](\d+)|PORT=(\d+)/ matches
Matches(piece) ==
    \/ piece.piece = "--port" /\ piece.sep \in {"=", " "} /\ piece.digits >= 0
    \/ piece.piece = "PORT=" /\ piece.digits >= 0

\* script.match(...): the leftmost match, 0 when there is none
PortMatch(script) ==
    LET hits == { i \in 1..Len(script) : Matches(script[i]) }
    IN IF hits = {} THEN 0 ELSE Least(hits)

scriptNames == <<"dev", "start", "serve", "develop">>

RECURSIVE detectPortFrom(_, _, _)
\* the loop of detectPort from the i-th script name on
detectPortFrom(scripts, i, defaultPort) ==
    IF i > Len(scriptNames) THEN defaultPort
    ELSE LET name == scriptNames[i] IN
         IF name \in DOMAIN scripts /\ scripts[name] # <<>>
               /\ PortMatch(scripts[name]) # 0
         THEN scripts[name][PortMatch(scripts[name])].digits
         ELSE detectPortFrom(scripts, i + 1, defaultPort)

\* detectPort: the scripts dev, start, serve, develop in this order
detectPort(packageJson, frameworkConfig) ==
    detectPortFrom(packageJson.scripts, 1, frameworkConfig.defaultPort)

RECURSIVE Join(_)
\* the string of a sequence of characters
Join(chars) == IF chars = <<>> THEN "" ELSE Head(chars) \o Join(Tail(chars))

\* the two viewports of generateDefaultScreenshots
DefaultViewports ==
    << [name |-> "desktop", viewport |-> Viewport(1440, 900, 0)],
       [name |-> "mobile", viewport |-> Viewport(390, 844, 3)] >>

\* one ScreenshotConfig for every route and every viewport, routes outermost
generateDefaultScreenshots(frameworkConfig, port) ==
    [k \in 1..(Len(frameworkConfig.routes) * Len(DefaultViewports)) |->
        LET route == frameworkConfig.routes[((k - 1) \div Len(DefaultViewports)) + 1]
            vp == DefaultViewports[((k - 1) % Len(DefaultViewports)) + 1]
        IN [name |-> vp.name \o "-" \o Join(ToLowerCase(route.name)),
            url |-> "http://localhost:" \o ToString(port) \o route.path,
            viewport |-> vp.viewport]]

\* package.json: missing, not JSON, the JSON value null, or an object with
\* the keys of its dependencies and devDependencies and its scripts
NoPackageJson == [kind |-> "missing", dependencies |-> {}, devDependencies |-> {},
                  scripts |-> <<>>]
BadPackageJson == [NoPackageJson EXCEPT !.kind = "invalid"]
NullPackageJson == [NoPackageJson EXCEPT !.kind = "null"]
PackageJson(deps, devDeps, scripts) ==
    [kind |-> "object", dependencies |-> deps, devDependencies |-> devDeps,
     scripts |-> scripts]

\* the for loop body's test of one framework: dependencies, then
\* devDependencies, both against the merged object, then the files
IsDetected(frameworkConfig, dependencies, present) ==
    IF \E i \in 1..Len(frameworkConfig.dependencies) :
          frameworkConfig.dependencies[i] \in dependencies
    THEN TRUE
    ELSE IF \E i \in 1..Len(frameworkConfig.devDependencies) :
               frameworkConfig.devDependencies[i] \in dependencies
    THEN TRUE
    ELSE \E i \in 1..Len(frameworkConfig.files) : frameworkConfig.files[i] \in present

FrameworkInfo(frameworkConfig, port) ==
    [id |-> frameworkConfig.id, name |-> frameworkConfig.name,
     config |-> [version |-> 1,
                 screenshots |-> generateDefaultScreenshots(frameworkConfig, port),
                 output |-> [branch |-> "gh-screenshots", template |-> "default",
                             group_by |-> "viewport"]]]

\* detectFramework returned null
NoFramework == [id |-> "", name |-> "", config |-> <<>>]

\* the body of the outer try of detectFramework: what it returns, or the
\* TypeError of reading a property of null
DetectBody(project) ==
    LET packageJson == project.packageJson IN
    IF packageJson.kind \in {"missing", "invalid"} THEN Returned(NoFramework)
    ELSE IF packageJson.kind = "null"
    THEN Threw(NoFramework, "Cannot read properties of null")
    ELSE LET dependencies == packageJson.dependencies \cup packageJson.devDependencies
             found == { i \in 1..Len(FRAMEWORK_CONFIGS) :
                          IsDetected(FRAMEWORK_CONFIGS[i], dependencies, project.files) }
         IN IF found = {} THEN Returned(NoFramework)
            ELSE LET frameworkConfig == FRAMEWORK_CONFIGS[Least(found)]
                 IN Returned(FrameworkInfo(frameworkConfig,
                                           detectPort(packageJson, frameworkConfig)))

\* mutant: without the outer catch
detectFrameworkUncaught(project) == DetectBody(project)

\* detectFramework: the outer catch logs and returns null
detectFramework(project) ==
    IF DetectBody(project).ok THEN DetectBody(project) ELSE Returned(NoFramework)

(***************************************************************************)
(* loadConfiguration and applyActionOverrides (index.ts)                   *)
(***************************************************************************)
OutputConfig(branch) == [branch |-> branch, template |-> "default", group_by |-> "viewport"]

\* createSimpleConfig(url)
createSimpleConfig(url) ==
    [version |-> 1,
     screenshots |-> << [name |-> "desktop-home", url |-> url,
                         viewport |-> Viewport(1440, 900, 0)],
                        [name |-> "mobile-home", url |-> url,
                         viewport |-> Viewport(390, 844, 3)] >>,
     output |-> OutputConfig("gh-screenshots")]

\* the Configs loadConfig returns for the config files of the catalogue
FileConfigs ==
    { [version |-> 1,
       screenshots |-> << [name |-> "home", url |-> "http://localhost:3000/home",
                           viewport |-> Viewport(1440, 900, 0),
                           steps |-> <<"click .menu">>],
                          [name |-> "about", url |-> "http://localhost:3000/about",
                           viewport |-> Viewport(390, 844, 3), steps |-> <<>>],
                          [name |-> "home", url |-> "http://localhost:3000/",
                           viewport |-> Viewport(768, 1024, 0),
                           steps |-> <<"fill #q", "wait 500">>] >>,
       output |-> OutputConfig("screens")],
      [version |-> 1,
       screenshots |-> << [name |-> "landing", url |-> "http://localhost:8080/",
                           viewport |-> Viewport(1366, 768, 0), steps |-> <<>>] >>,
       output |-> OutputConfig("gh-screenshots")] }

NoFile == [version |-> 0, screenshots |-> <<>>, output |-> OutputConfig("")]

\* the config file: fs.access rejects, loadConfig throws, or loadConfig
\* returns a Config
FileStates ==
    { [kind |-> "missing", config |-> NoFile], [kind |-> "fails", config |-> NoFile] }
       \cup { [kind |-> "loads", config |-> c] : c \in FileConfigs }

LoadErrorMessage == "Failed to load config: Config must include at least one screenshot"
NoConfigurationMessage == "No configuration available."

\* the project directory detectFramework looks at
DependencySets == { {}, {"lodash"}, {"gatsby"}, {"gatsby", "next"}, {"@sveltejs/kit"} }
DevDependencySets == { {}, {"vite"}, {"next", "typescript"} }
ScriptSets ==
    { <<>>,
      [dev |-> <<Text("next dev")>>],
      [dev |-> <<Text("vite"), PortFlag(" ", 4000)>>,
       start |-> <<PortEnv(4100), Text("node server")>>],
      [dev |-> <<Text("vite -p 4000")>>, start |-> <<Text("serve"), PortFlag("=", 4200)>>],
      [dev |-> <<>>,
       serve |-> <<PortFlag(":", 9), Text("http-server"), PortEnv(4300), PortFlag(" ", 4400)>>,
       develop |-> <<PortFlag(" ", 8001)>>],
      [build |-> <<PortFlag(" ", 1)>>,
       develop |-> <<Text("gatsby develop"), PortFlag(" ", -1)>>] }
FileSets == { {}, {"vite.config.ts"}, {"angular.json"}, {"angular.json", "vite.config.js"} }

Projects ==
    { [packageJson |-> pj, files |-> fs] :
         pj \in {NoPackageJson, BadPackageJson, NullPackageJson}
                   \cup { PackageJson(d, v, sc) : d \in DependencySets,
                                                  v \in DevDependencySets,
                                                  sc \in ScriptSets },
         fs \in FileSets }

\* the heap: the objects a Config is made of, each at its address.  A Config
\* object refers to its screenshots array and to its output object, the
\* array refers to its ScreenshotConfig objects.
ConfigCell(version, screenshotsAt, outputAt) ==
    [kind |-> "config", version |-> version, screenshots |-> screenshotsAt,
     output |-> outputAt]
ArrayCell(items) == [kind |-> "array", items |-> items]
ObjectCell(fields) == [kind |-> "object", fields |-> fields]

\* a Config value laid out on the heap; the Config object is the last cell
Allocate(heap, cfg) ==
    LET n == Len(heap)
        k == Len(cfg.screenshots)
    IN heap \o [i \in 1..k |-> ObjectCell(cfg.screenshots[i])]
            \o << ArrayCell([i \in 1..k |-> n + i]),
                  ObjectCell(cfg.output),
                  ConfigCell(cfg.version, n + k + 1, n + k + 2) >>

\* the Config value that the object at addr stands for
ValueAt(heap, addr) ==
    LET cell == heap[addr]
        items == heap[cell.screenshots].items
    IN [version |-> cell.version,
        screenshots |-> [i \in 1..Len(items) |-> heap[items[i]].fields],
        output |-> heap[cell.output].fields]

\* mutant: result is the object it was given
CopyConfigAlias(heap, addr) == [heap |-> heap, result |-> addr]

\* const result = { ...config }: a new object with the same references
CopyConfig(heap, addr) == [heap |-> Append(heap, heap[addr]), result |-> Len(heap) + 1]

\* result.screenshots = result.screenshots.map(s => ({...s, url})): new
\* ScreenshotConfig objects in a new array, assigned to result
OverrideUrls(h, url) ==
    LET heap == h.heap
        items == heap[heap[h.result].screenshots].items
        n == Len(heap)
        k == Len(items)
        grown == heap \o [i \in 1..k |->
                             ObjectCell([heap[items[i]].fields EXCEPT !.url = url])]
                      \o << ArrayCell([i \in 1..k |-> n + i]) >>
    IN [heap |-> [grown EXCEPT ![h.result].screenshots = n + k + 1],
        result |-> h.result]

\* result.output = {...result.output, branch}: a new output object
OverrideBranch(h, branch) ==
    LET heap == h.heap
        grown == Append(heap,
                        ObjectCell([heap[heap[h.result].output].fields
                                       EXCEPT !.branch = branch]))
    IN [heap |-> [grown EXCEPT ![h.result].output = Len(grown)],
        result |-> h.result]

\* applyActionOverrides(config, {url, branch}) on the heap
ApplyOverrides(heap, addr, overrides) ==
    LET copied == CopyConfig(heap, addr)
        withUrl == IF overrides.url # "" THEN OverrideUrls(copied, overrides.url)
                   ELSE copied
    IN IF overrides.branch # "" THEN OverrideBranch(withUrl, overrides.branch)
       ELSE withUrl

InitConfiguration ==
    /\ loading \in
          { [pc |-> "start", url |-> u, branch |-> b, failOnError |-> f, file |-> fl,
             project |-> pr, heap |-> <<>>, baseConfig |-> 0, finalConfig |-> 0,
             framework |-> NoFramework, detected |-> FALSE, heapAtCall |-> <<>>,
             thrown |-> "", captured |-> FALSE] :
               u \in {"", "https://preview.example"}, b \in {"", "shots"},
               f \in BOOLEAN, fl \in FileStates, pr \in Projects }
    /\ CaptureIdle
    /\ UploadIdle
    /\ RunIdle
    /\ CommentsIdle
    /\ FsIdle
    /\ ProcIdle
    /\ ConfIdle

notLoading == <<capVars, upVars, runVars, cmtVars, fsVars, procVars, confVars>>

\* fileExists(configPath) is false
FileMissing ==
    /\ loading.pc = "start"
    /\ loading.file.kind = "missing"
    /\ loading' = [loading EXCEPT !.pc = "alternatives"]
    /\ UNCHANGED notLoading

\* baseConfig = await loadConfig(configPath)
LoadConfig ==
    /\ loading.pc = "start"
    /\ loading.file.kind = "loads"
    /\ LET heap == Allocate(loading.heap, loading.file.config) IN
       loading' = [loading EXCEPT !.pc = "validate", !.heap = heap,
                                  !.baseConfig = Len(heap)]
    /\ UNCHANGED notLoading

\* loadConfig throws: if (failOnError) throw error
LoadConfigFail ==
    /\ loading.pc = "start"
    /\ loading.file.kind = "fails"
    /\ IF loading.failOnError
       THEN loading' = [loading EXCEPT !.pc = "thrown", !.thrown = LoadErrorMessage]
       ELSE loading' = [loading EXCEPT !.pc = "alternatives"]
    /\ UNCHANGED notLoading

\* mutant: the url input is looked at only when nothing was detected
UseUrlLast ==
    /\ loading.pc = "alternatives"
    /\ loading.url # ""
    /\ LET cfg == IF detectFramework(loading.project).value # NoFramework
                  THEN detectFramework(loading.project).value.config
                  ELSE createSimpleConfig(loading.url)
           heap == Allocate(loading.heap, cfg)
       IN loading' = [loading EXCEPT !.pc = "validate", !.heap = heap,
                                     !.baseConfig = Len(heap)]
    /\ UNCHANGED notLoading

\* if (url) baseConfig = createSimpleConfig(url)
UseUrl ==
    /\ loading.pc = "alternatives"
    /\ loading.url # ""
    /\ LET heap == Allocate(loading.heap, createSimpleConfig(loading.url)) IN
       loading' = [loading EXCEPT !.pc = "validate", !.heap = heap,
                                  !.baseConfig = Len(heap)]
    /\ UNCHANGED notLoading

\* framework = await detectFramework(); if (framework) baseConfig = framework.config
DetectFramework ==
    /\ loading.pc = "alternatives"
    /\ loading.url = ""
    /\ LET outcome == detectFramework(loading.project)
           framework == outcome.value
           heap == Allocate(loading.heap, framework.config)
       IN IF ~outcome.ok
          THEN loading' = [loading EXCEPT !.pc = "thrown", !.detected = TRUE,
                                          !.thrown = outcome.error]
          ELSE IF framework = NoFramework
          THEN loading' = [loading EXCEPT !.pc = "validate", !.detected = TRUE]
          ELSE loading' = [loading EXCEPT !.pc = "validate", !.detected = TRUE,
                                          !.framework = framework, !.heap = heap,
                                          !.baseConfig = Len(heap)]
    /\ UNCHANGED notLoading

\* if (!baseConfig) throw new Error('No configuration available. ...')
NoConfiguration ==
    /\ loading.pc = "validate"
    /\ loading.baseConfig = 0
    /\ loading' = [loading EXCEPT !.pc = "thrown", !.thrown = NoConfigurationMessage]
    /\ UNCHANGED notLoading

\* finalConfig = applyActionOverrides(baseConfig, {url, branch}); return
ApplyActionOverrides ==
    /\ loading.pc = "validate"
    /\ loading.baseConfig # 0
    /\ LET applied == ApplyOverrides(loading.heap, loading.baseConfig,
                                     [url |-> loading.url, branch |-> loading.branch])
       IN loading' = [loading EXCEPT !.pc = "returned", !.heapAtCall = loading.heap,
                                     !.heap = applied.heap,
                                     !.finalConfig = applied.result]
    /\ UNCHANGED notLoading

\* run() goes on with the config loadConfiguration returned and captures
CaptureWith ==
    /\ loading.pc = "returned"
    /\ loading' = [loading EXCEPT !.pc = "capture", !.captured = TRUE]
    /\ UNCHANGED notLoading

NextConfiguration ==
    \/ FileMissing
    \/ LoadConfig
    \/ LoadConfigFail
    \/ UseUrl
    \/ DetectFramework
    \/ NoConfiguration
    \/ ApplyActionOverrides
    \/ CaptureWith

SpecConfiguration == InitConfiguration /\ [][NextConfiguration]_vars

\* loadConfiguration has returned a Config
ConfigReturned == loading.pc \in {"returned", "capture"}

\* the Config that baseConfig was when applyActionOverrides was called, and
\* the Config that loadConfiguration returned
BaseValue == ValueAt(loading.heapAtCall, loading.baseConfig)
FinalValue == ValueAt(loading.heap, loading.finalConfig)

\* a config of the two targets desktop-home and mobile-home on one url
IsSimpleConfig(cfg, url) ==
    /\ Len(cfg.screenshots) = 2
    /\ cfg.screenshots[1].name = "desktop-home"
    /\ cfg.screenshots[2].name = "mobile-home"
    /\ \A i \in 1..2 : cfg.screenshots[i].url = url

\* C32: the Config loadConfiguration works on is the config file's when the
\* file exists and loads; otherwise, with a url input, the two-target config
\* on that url; otherwise the config of the detected framework; when there
\* is none of the three, 'No configuration available' is thrown and nothing
\* is captured.  With a loadable file and a url input the returned Config
\* has the file's screenshots in the file's order, with the same names,
\* viewports and steps, each with the url input as its url.
C32_Precedence ==
    /\ ConfigReturned =>
          /\ loading.file.kind = "loads" => BaseValue = loading.file.config
          /\ (loading.file.kind # "loads" /\ loading.url # "") =>
                IsSimpleConfig(BaseValue, loading.url)
          /\ (loading.file.kind # "loads" /\ loading.url = "") =>
                /\ loading.framework # NoFramework
                /\ BaseValue = loading.framework.config
    /\ (loading.file.kind = "missing" /\ loading.url = "" /\ loading.detected
           /\ loading.framework = NoFramework /\ loading.pc # "validate") =>
          /\ loading.pc = "thrown"
          /\ loading.thrown = NoConfigurationMessage
    /\ loading.thrown = NoConfigurationMessage =>
          /\ loading.file.kind # "loads"
          /\ loading.url = ""
          /\ loading.framework = NoFramework
    /\ loading.pc = "thrown" => ~loading.captured
    /\ (ConfigReturned /\ loading.file.kind = "loads" /\ loading.url # "") =>
          LET given == loading.file.config.screenshots
              final == FinalValue.screenshots
          IN /\ Len(final) = Len(given)
             /\ \A i \in 1..Len(given) :
                   /\ final[i].name = given[i].name
                   /\ final[i].viewport = given[i].viewport
                   /\ final[i].steps = given[i].steps
                   /\ final[i].url = loading.url

\* a file with three screenshots and a url input: the Config was returned
C32_Witness ==
    /\ ConfigReturned
    /\ loading.file.kind = "loads"
    /\ loading.url # ""
    /\ Len(FinalValue.screenshots) = 3
    /\ FinalValue.screenshots[1].steps # <<>>
    /\ BaseValue.screenshots[1].url # loading.url

\* C33: when loadConfig throws, loadConfiguration throws that error if
\* fail-on-error is true, and otherwise goes on as without a file: it works
\* on the two-target config of the url input, or on the detected framework's
\* config, or throws 'No configuration available'.  applyActionOverrides
\* leaves every object that existed when it was called as it was, the
\* Config it was given included.
C33_LoadFailure ==
    /\ (loading.file.kind = "fails" /\ loading.failOnError /\ loading.pc # "start") =>
          /\ loading.pc = "thrown"
          /\ loading.thrown = LoadErrorMessage
    /\ (loading.file.kind = "fails" /\ ~loading.failOnError) =>
          /\ loading.thrown # LoadErrorMessage
          /\ loading.pc # "start" =>
                loading.pc \in {"alternatives", "validate", "returned", "capture", "thrown"}
          /\ ConfigReturned =>
                IF loading.url # "" THEN IsSimpleConfig(BaseValue, loading.url)
                ELSE /\ loading.framework # NoFramework
                     /\ BaseValue = loading.framework.config
          /\ loading.pc = "thrown" =>
                /\ loading.thrown = NoConfigurationMessage
                /\ loading.url = ""
                /\ loading.framework = NoFramework
    /\ ConfigReturned =>
          /\ \A a \in 1..Len(loading.heapAtCall) : loading.heap[a] = loading.heapAtCall[a]
          /\ ValueAt(loading.heap, loading.baseConfig) = BaseValue

\* the file failed to load without fail-on-error, the url input gave the
\* Config, and the branch input replaced its output.branch
C33_Witness ==
    /\ ConfigReturned
    /\ loading.file.kind = "fails"
    /\ ~loading.failOnError
    /\ loading.url # ""
    /\ loading.branch # ""
    /\ FinalValue.output.branch = loading.branch
    /\ BaseValue.output.branch # loading.branch

\* the packages and files a framework is recognised by
Packages(fw) ==
    { fw.dependencies[i] : i \in 1..Len(fw.dependencies) }
       \cup { fw.devDependencies[i] : i \in 1..Len(fw.devDependencies) }
Files(fw) == { fw.files[i] : i \in 1..Len(fw.files) }

\* the dependency or file criteria of the i-th framework match the project
CriteriaMatch(i, project) ==
    \/ Packages(FRAMEWORK_CONFIGS[i]) \cap (project.packageJson.dependencies
                                              \cup project.packageJson.devDependencies) # {}
    \/ Files(FRAMEWORK_CONFIGS[i]) \cap project.files # {}

\* the script names a port: it has --port=N, --port N or PORT=N
NamesPort(scripts, name) ==
    /\ name \in DOMAIN scripts
    /\ \E i \in 1..Len(scripts[name]) : Matches(scripts[name][i])

\* the port of the first of dev, start, serve, develop that names one
ExpectedPort(scripts, defaultPort) ==
    LET naming == { k \in 1..4 : NamesPort(scripts, <<"dev", "start", "serve", "develop">>[k]) }
    IN IF naming = {} THEN defaultPort
       ELSE LET script == scripts[<<"dev", "start", "serve", "develop">>[Least(naming)]]
            IN script[Least({ i \in 1..Len(script) : Matches(script[i]) })].digits

====
